---- MODULE Spec2Model ----
(***************************************************************************)
(* Model of the Openbench Logic Sniffer (OLS / SUMP) driver of libsigrok,  *)
(* src/hardware/openbench-logic-sniffer/ols.c: one device instance, its    *)
(* private context (struct dev_context), the serial port, the session's    *)
(* I/O source for the port and the datafeed the session delivers.          *)
(*                                                                         *)
(* Conventions                                                             *)
(*  - bit masks (probe_mask, trigger_mask[], trigger_value[]) are sets of  *)
(*    bit positions 0..31; flag_reg is the set of the flags that are set;  *)
(*  - the sample buffer is a sequence of bytes, indexed from 1 in TLA+,    *)
(*    so C offset o is element o + 1;                                      *)
(*  - an operation whose C code runs into undefined behaviour takes an     *)
(*    extra input naming the outcome (for instance "trap" or "zero" for an *)
(*    integer division by zero); crashed = TRUE is the dead process.       *)
(***************************************************************************)
EXTENDS Integers, Sequences, FiniteSets, TLC

(***************************************************************************)
(* Bounds of the model.                                                    *)
(***************************************************************************)
MaxRecv == 5    \* receive_data byte events in one run of Spec
MaxAcq == 1     \* calls of hw_dev_acquisition_start in one run of Spec
MaxStop == 2    \* calls of hw_dev_acquisition_stop in one run of Spec
MaxReRecv == 2  \* receive_data byte events in one run of SpecRe
MaxReCalls == 4 \* calls the frontend makes in one run of SpecRe
MaxFault == 1   \* faults of the environment in one run of SpecFault
MaxFaultRecv == 3 \* receive_data byte events in one run of SpecFault

(***************************************************************************)
(* Program constants.                                                      *)
(***************************************************************************)
SR_OK == 0
SR_ERR == -1
SR_ERR_MALLOC == -2
SR_ERR_ARG == -3
SR_ERR_SAMPLERATE == -5

SR_HZ(n) == n
SR_KHZ(n) == n * 1000
SR_MHZ(n) == n * 1000000

NUM_PROBES == 32
NUM_TRIGGER_STAGES == 4
MIN_NUM_SAMPLES == 4
CLOCK_RATE == SR_MHZ(100)

FLAG_DEMUX == "DEMUX"
FLAG_FILTER == "FILTER"
FLAG_RLE == "RLE"
\* FLAG_CHANNELGROUP_1 .. _4: bit 2 + g of the flag register, 1 = disabled
ChannelGroupFlag(g) == <<"CHANNELGROUP_1", "CHANNELGROUP_2",
                         "CHANNELGROUP_3", "CHANNELGROUP_4">>[g + 1]

\* static const struct sr_samplerates samplerates = { low, high, step }
samplerates == [low |-> SR_HZ(10), high |-> SR_MHZ(200), step |-> SR_HZ(1)]

\* the descriptor serial_open() hands out; serial_close() sets fd to -1
FD_OPEN == 3
FD_CLOSED == -1

\* a byte or word whose value the C standard leaves unspecified
Unspecified == 0 - 1

Min(a, b) == IF a < b THEN a ELSE b

VARIABLES
    sdi,        \* struct sr_dev_inst: status, probes
    devc,       \* struct dev_context
    serial_fd,  \* devc->serial->fd
    source,     \* the session's sources: << >> or << [fd, timeout] >>
    feed,       \* packets handed to sr_session_send, in order
    call,       \* the driver entry point that ran last, with its arguments
    ret,        \* what it returned
    crashed,    \* the process died (trap on undefined behaviour)
    acq,        \* bookkeeping of the run: counters and acquisition phase
    scan,       \* hw_scan: drvc->instances, the port and what went over it
    dmm,        \* rs9lcd: the frame at hand and what the parser made of it
    dsl         \* dslogic: the device context and the FPGA configuration

vars == <<sdi, devc, serial_fd, source, feed, call, ret, crashed, acq,
          scan, dmm, dsl>>

\* the state of the OLS device instance and of its acquisition
ols_vars == <<sdi, devc, serial_fd, source, feed, call, ret, crashed, acq>>

Groups == 0..3
Stages == 0..(NUM_TRIGGER_STAGES - 1)
ProbeIdx == 0..(NUM_PROBES - 1)

(***************************************************************************)
(* ols_dev_new: g_try_malloc0, then trigger_at, probe_mask, cur_samplerate *)
(* and serial.  max_samples and max_samplerate are what get_metadata       *)
(* stored (0 when the device sent no metadata).                            *)
(***************************************************************************)
ols_dev_new(max_samples, max_samplerate) ==
    [ max_samplerate |-> max_samplerate,
      max_samples |-> max_samples,
      cur_samplerate |-> SR_KHZ(200),
      cur_samplerate_divider |-> 0,
      limit_samples |-> 0,
      flag_reg |-> {},
      capture_ratio |-> 0,
      trigger_at |-> -1,
      probe_mask |-> ProbeIdx,
      trigger_mask |-> [s \in Stages |-> {}],
      trigger_value |-> [s \in Stages |-> {}],
      num_stages |-> 0,
      num_transfers |-> 0,
      num_samples |-> 0,
      rle_count |-> 0,
      num_bytes |-> 0,
      sample |-> <<0, 0, 0, 0>>,
      tmp_sample |-> <<0, 0, 0, 0>>,
      raw_sample_buf |-> [state |-> "null", bytes |-> << >>] ]

\* The probe list of the instance: the set of the indices of the enabled
\* probes and the trigger expression of every probe that has one.
\* hw_scan: sr_probe_new(i, SR_PROBE_LOGIC, TRUE, probe_names[i]), i in 0..31
ScanProbes == [enabled |-> ProbeIdx, trigger |-> << >>]

ProbeTrigger(probes, p) ==
    IF p \in DOMAIN probes.trigger THEN probes.trigger[p] ELSE << >>

\* what the device reported in its metadata: <<max_samples, max_samplerate>>
MetadataVariants == { <<0, 0>>, <<24576, SR_MHZ(200)>>, <<16, SR_MHZ(300)>> }

Call(op, cap, value) == [op |-> op, cap |-> cap, value |-> value]

\* what a start call has worked out for the device: nothing yet
NoProgram == [marker |-> 0, config |-> << >>, readcount |-> 0,
              delaycount |-> 0, size |-> << >>]

\* faulty: whether the environment of this run may fail at all
AcqInit(faulty) == [calls |-> 0, starts |-> 0, stops |-> 0, recvd |-> 0,
                    faults |-> 0, faulty |-> faulty, phase |-> "idle",
                    rx |-> << >>, prog |-> NoProgram]

\* hw_init: the driver context is zeroed, no port has been touched
ScanRest == [instances |-> << >>, devices |-> << >>, fd |-> FD_CLOSED,
             wire |-> << >>, buf |-> << >>, nread |-> 0, meta |-> << >>,
             calls |-> 0]

\* no frame has been handed to the rs9lcd parser
DmmRest == [stage |-> "none"]

\* no DSLogic device has been configured
DslRest == [stage |-> "none"]

\* the acquisition and configuration models follow the OLS instance only
OthersRest == scan = ScanRest /\ dmm = DmmRest /\ dsl = DslRest

\* the state hw_init and hw_scan leave behind: one instance, port closed
InitCfg ==
    /\ \E m \in MetadataVariants : devc = ols_dev_new(m[1], m[2])
    /\ sdi = [status |-> "INACTIVE", probes |-> ScanProbes]
    /\ serial_fd = FD_CLOSED
    /\ source = << >>
    /\ feed = << >>
    /\ call = Call("scan", "", 0)
    /\ ret = SR_OK
    /\ crashed = FALSE
    /\ acq = AcqInit(TRUE)
    /\ OthersRest

(***************************************************************************)
(* hw_dev_open / hw_dev_close                                              *)
(***************************************************************************)
hw_dev_open(open_ok) ==
    /\ ~crashed
    /\ call' = Call("dev_open", "", 0)
    /\ IF open_ok
       THEN /\ serial_fd' = FD_OPEN
            /\ sdi' = [sdi EXCEPT !.status = "ACTIVE"]
            /\ ret' = SR_OK
       ELSE /\ UNCHANGED <<serial_fd, sdi>>
            /\ ret' = SR_ERR
    /\ UNCHANGED <<devc, source, feed, crashed>>

hw_dev_close ==
    /\ ~crashed
    /\ call' = Call("dev_close", "", 0)
    /\ IF serial_fd # FD_CLOSED
       THEN /\ serial_fd' = FD_CLOSED
            /\ sdi' = [sdi EXCEPT !.status = "INACTIVE"]
       ELSE UNCHANGED <<serial_fd, sdi>>
    /\ ret' = SR_OK
    /\ UNCHANGED <<devc, source, feed, crashed>>

(***************************************************************************)
(* hw_info_get(SR_DI_CUR_SAMPLERATE, &data, sdi): the value *data points   *)
(* at.                                                                     *)
(***************************************************************************)
hw_info_get_cur_samplerate(d) == d.cur_samplerate

(***************************************************************************)
(* set_samplerate.  The result is [ret, devc, trap].  A division by zero   *)
(* is undefined: ub = "trap" kills the process, ub = "zero" is the build   *)
(* whose divide instruction yields 0 (the divider 0xffffffff is written    *)
(* as Unspecified, integers of the model being 32 bits wide).              *)
(***************************************************************************)
\* the range test without its lower bound
SamplerateRejected_nolow(d, samplerate) ==
    IF d.max_samplerate # 0
    THEN samplerate > d.max_samplerate
    ELSE samplerate > samplerates.high

SamplerateRejected(d, samplerate) ==
    IF d.max_samplerate # 0
    THEN samplerate > d.max_samplerate
    ELSE samplerate < samplerates.low \/ samplerate > samplerates.high

\* CLOCK_RATE * 2 / samplerate or CLOCK_RATE / samplerate (lines 609, 612);
\* 0 stands in for the quotient of the division by zero
\* the quotient rounded up instead of down
ClockQuotient_ceil(samplerate, demux) ==
    IF samplerate = 0 THEN 0
    ELSE IF demux THEN (CLOCK_RATE * 2 + samplerate - 1) \div samplerate
                  ELSE (CLOCK_RATE + samplerate - 1) \div samplerate

ClockQuotient(samplerate, demux) ==
    IF samplerate = 0 THEN 0
    ELSE IF demux THEN (CLOCK_RATE * 2) \div samplerate
                  ELSE CLOCK_RATE \div samplerate

set_samplerate(d, samplerate, ub) ==
    IF SamplerateRejected(d, samplerate)
    THEN [ret |-> SR_ERR_SAMPLERATE, devc |-> d, trap |-> FALSE]
    ELSE
      LET demux == samplerate > CLOCK_RATE
          flags == IF demux THEN d.flag_reg \cup {FLAG_DEMUX}
                            ELSE d.flag_reg \ {FLAG_DEMUX}
          quot == ClockQuotient(samplerate, demux)
          \* uint32_t: quot - 1 wraps to 0xffffffff when quot = 0
          divider == IF quot = 0 THEN Unspecified ELSE quot - 1
          \* divider + 1 wraps to 0 when divider = 0xffffffff
          divisor == IF quot = 0 THEN 0 ELSE divider + 1
          rate == IF divisor = 0 THEN 0 ELSE CLOCK_RATE \div divisor
          cur == IF demux THEN rate * 2 ELSE rate
      IN IF (samplerate = 0 \/ divisor = 0) /\ ub = "trap"
         THEN [ret |-> SR_ERR, devc |-> d, trap |-> TRUE]
         ELSE [ret |-> SR_OK,
               devc |-> [d EXCEPT !.flag_reg = flags,
                                  !.cur_samplerate_divider = divider,
                                  !.cur_samplerate = cur],
               trap |-> FALSE]

(***************************************************************************)
(* case SR_HWCAP_CAPTURE_RATIO of hw_dev_config_set: the value is stored   *)
(* first and then tested; the frontend passes a uint64_t, so value >= 0.   *)
(***************************************************************************)
\* a ratio out of range is refused and the one before it is kept
set_capture_ratio_keep(d, value) ==
    IF value < 0 \/ value > 100
    THEN [ret |-> SR_ERR, devc |-> d, trap |-> FALSE]
    ELSE [ret |-> SR_OK,
          devc |-> [d EXCEPT !.capture_ratio = value],
          trap |-> FALSE]

set_capture_ratio(d, value) ==
    LET stored == [d EXCEPT !.capture_ratio = value]
    IN  IF stored.capture_ratio < 0 \/ stored.capture_ratio > 100
        THEN [ret |-> SR_ERR,
              devc |-> [stored EXCEPT !.capture_ratio = 0],
              trap |-> FALSE]
        ELSE [ret |-> SR_OK, devc |-> stored, trap |-> FALSE]

(***************************************************************************)
(* hw_dev_config_set(sdi, hwcap, value): [ret, devc, trap]                 *)
(***************************************************************************)
dev_config_set(status, d, hwcap, value, ub) ==
    IF status # "ACTIVE"
    THEN [ret |-> SR_ERR, devc |-> d, trap |-> FALSE]
    ELSE CASE hwcap = "SAMPLERATE" -> set_samplerate(d, value, ub)
           [] hwcap = "LIMIT_SAMPLES" ->
                IF value < MIN_NUM_SAMPLES
                THEN [ret |-> SR_ERR, devc |-> d, trap |-> FALSE]
                ELSE [ret |-> SR_OK,
                      devc |-> [d EXCEPT !.limit_samples = value],
                      trap |-> FALSE]
           [] hwcap = "CAPTURE_RATIO" -> set_capture_ratio(d, value)
           [] hwcap = "RLE" ->
                [ret |-> SR_OK,
                 devc |-> IF value # 0
                          THEN [d EXCEPT !.flag_reg = @ \cup {FLAG_RLE}]
                          ELSE d,
                 trap |-> FALSE]
           [] OTHER -> [ret |-> SR_ERR, devc |-> d, trap |-> FALSE]

hw_dev_config_set(hwcap, value, ub) ==
    /\ ~crashed
    /\ call' = Call("config_set", hwcap, value)
    /\ LET r == dev_config_set(sdi.status, devc, hwcap, value, ub)
       IN /\ ret' = r.ret
          /\ devc' = r.devc
          /\ crashed' = r.trap
    /\ UNCHANGED <<sdi, serial_fd, source, feed>>


(***************************************************************************)
(* configure_probes: walks sdi->probes in list order (index order) and     *)
(* returns SR_ERR from inside the walk as soon as a trigger expression     *)
(* reaches a fourth character, leaving what it had stored so far.          *)
(***************************************************************************)
ProbeStore(st, p, trigger) ==
    LET tlen == Len(trigger)
        used == Min(tlen, NUM_TRIGGER_STAGES)
        mask == [s \in Stages |->
                    IF s < used THEN st.trigger_mask[s] \cup {p}
                                ELSE st.trigger_mask[s]]
        value == [s \in Stages |->
                    IF s < used /\ trigger[s + 1] = "1"
                    THEN st.trigger_value[s] \cup {p}
                    ELSE st.trigger_value[s]]
    IN [ ret |-> IF tlen > 3 THEN SR_ERR ELSE SR_OK,
         probe_mask |-> st.probe_mask \cup {p},
         trigger_mask |-> mask,
         trigger_value |-> value,
         num_stages |-> IF tlen <= 3 /\ tlen > st.num_stages
                        THEN tlen ELSE st.num_stages ]

RECURSIVE ProbeWalk(_, _, _)
ProbeWalk(st, probes, p) ==
    IF p >= NUM_PROBES \/ st.ret # SR_OK THEN st
    ELSE IF p \notin probes.enabled THEN ProbeWalk(st, probes, p + 1)
    ELSE ProbeWalk(ProbeStore(st, p, ProbeTrigger(probes, p)), probes, p + 1)

configure_probes(probes) ==
    ProbeWalk([ ret |-> SR_OK,
                probe_mask |-> {},
                trigger_mask |-> [s \in Stages |-> {}],
                trigger_value |-> [s \in Stages |-> {}],
                num_stages |-> 0 ],
              probes, 0)

(***************************************************************************)
(* The session (session.c is not part of the sources at hand; modelled     *)
(* from section 4.1 of the specification): one source per handle, adding   *)
(* a handle again replaces its registration, removing an absent handle is  *)
(* an error without effect; send appends to the datafeed.                  *)
(***************************************************************************)
sr_source_add(srcs, fd, timeout) ==
    << [fd |-> fd, timeout |-> timeout] >>

sr_source_remove(srcs, fd) ==
    IF srcs # << >> /\ srcs[1].fd = fd THEN << >> ELSE srcs

Packet(type, length, unitsize, offset, data, num_probes, samplerate) ==
    [ type |-> type, length |-> length, unitsize |-> unitsize,
      offset |-> offset, data |-> data,
      num_probes |-> num_probes, samplerate |-> samplerate ]

HeaderPacket == Packet("HEADER", 0, 0, 0, << >>, 0, 0)
\* the two fields of the payload exchanged
MetaLogicPacket_swapped(num_probes, samplerate) ==
    Packet("META_LOGIC", 0, 0, 0, << >>, samplerate, num_probes)
MetaLogicPacket(num_probes, samplerate) ==
    Packet("META_LOGIC", 0, 0, 0, << >>, num_probes, samplerate)
TriggerPacket == Packet("TRIGGER", 0, 0, 0, << >>, 0, 0)
EndPacket == Packet("END", 0, 0, 0, << >>, 0, 0)

\* the bytes a subscriber reads through logic.data: length bytes from C
\* offset off of the sample buffer; a byte outside the live allocation is
\* Unspecified.  A length that wrapped below zero carries no payload here.
BufSlice(buf, off, length) ==
    [k \in 1..(IF length > 0 THEN length ELSE 0) |->
        IF buf.state = "alloc" /\ off + k >= 1 /\ off + k <= Len(buf.bytes)
        THEN buf.bytes[off + k] ELSE Unspecified]

\* logic.length is kept as the mathematical difference; a negative value
\* stands for the unsigned value it wraps to
\* logic.length counted in samples instead of bytes
LogicPacket_samples(buf, off, length) ==
    Packet("LOGIC", length \div 4, 4, off, BufSlice(buf, off, length), 0, 0)

LogicPacket(buf, off, length) ==
    Packet("LOGIC", length, 4, off, BufSlice(buf, off, length), 0, 0)

(***************************************************************************)
(* abort_acquisition                                                       *)
(***************************************************************************)
\* the source removed without the End packet
abort_acquisition_silent(srcs, fd, pkts) ==
    [ source |-> sr_source_remove(srcs, fd),
      feed |-> pkts ]

abort_acquisition(srcs, fd, pkts) ==
    [ source |-> sr_source_remove(srcs, fd),
      feed |-> Append(pkts, EndPacket) ]

(***************************************************************************)
(* hw_dev_acquisition_stop                                                 *)
(***************************************************************************)
hw_dev_acquisition_stop ==
    /\ ~crashed
    /\ call' = Call("acquisition_stop", "", 0)
    /\ LET a == abort_acquisition(source, serial_fd, feed)
       IN /\ source' = a.source
          /\ feed' = a.feed
    /\ ret' = SR_OK
    /\ UNCHANGED <<sdi, devc, serial_fd, crashed>>


(***************************************************************************)
(* hw_dev_acquisition_start.                                               *)
(*   fault: the first step that fails ("none" when all succeed): one of    *)
(*          the serial writes or one of the two g_try_malloc calls; on a   *)
(*          closed port the first write fails;                             *)
(*   ub:    outcome of the division by num_channels = 0;                   *)
(*   oob:   what trigger_config[num_stages - 1] |= 0x08 hits when          *)
(*          num_stages = 0 (index -1, the word below the array on the      *)
(*          stack): nothing live, readcount, or changrp_mask.              *)
(* delaycount = readcount * (1 - capture_ratio / 100.0) is computed in     *)
(* double and truncated; the ratios the model uses (multiples of 25) are   *)
(* exact in binary, so the integer expression below is the same value.     *)
(***************************************************************************)
Or8(x) == IF (x \div 8) % 2 = 1 THEN x ELSE x + 8

DelayCount(readcount, capture_ratio) ==
    (readcount * (100 - capture_ratio)) \div 100

StartFaults == { "none", "write_trigger", "write_divider",
                 "write_capture_size", "write_flags", "write_run",
                 "malloc_packet", "malloc_header" }

StartResult(r, d, srcs, pkts, trap, prog) ==
    [ret |-> r, devc |-> d, source |-> srcs, feed |-> pkts, trap |-> trap,
     prog |-> prog]

dev_acquisition_start(inst, d0, fd, srcs, fault0, ub, oob) ==
    LET cp == configure_probes(inst.probes)
        d1 == [d0 EXCEPT !.probe_mask = cp.probe_mask,
                         !.trigger_mask = cp.trigger_mask,
                         !.trigger_value = cp.trigger_value,
                         !.num_stages = cp.num_stages]
        changrp0 == {g \in Groups : \E p \in d1.probe_mask : p \div 8 = g}
        num_channels == Cardinality(changrp0)
        quot == IF num_channels = 0 THEN 0
                ELSE d1.max_samples \div num_channels
        readcount0 == (Min(quot, d1.limit_samples) \div 4) % 65536
        oobhit == d1.num_stages = 0
        readcount == IF oobhit /\ oob = "readcount"
                     THEN Or8(readcount0) ELSE readcount0
        changrp == IF oobhit /\ oob = "changrp_mask"
                   THEN changrp0 \cup {3} ELSE changrp0
        trig == d1.trigger_mask[0] # {}
        delaycount == IF trig THEN DelayCount(readcount, d1.capture_ratio)
                              ELSE readcount
        \* line 919: the index of trigger_config[] the marker goes to
        marker == d1.num_stages - 1
        trigger_config == [s \in Stages |-> IF s = marker THEN 8 ELSE 0]
        \* the SET_TRIGGER_CONFIG words in the order sent, and the two
        \* 16-bit fields of CAPTURE_SIZE (lines 984-985)
        prog == [ marker |-> marker,
                  config |-> IF trig
                             THEN [s \in 1..NUM_TRIGGER_STAGES |->
                                       trigger_config[s - 1]]
                             ELSE << 8 >>,
                  readcount |-> readcount,
                  delaycount |-> delaycount,
                  size |-> << (readcount - 1) % 65536,
                              (delaycount - 1) % 65536 >> ]
        d2 == IF trig
              THEN [d1 EXCEPT !.trigger_at =
                        (readcount - delaycount) * 4 - d1.num_stages]
              ELSE d1
        d3 == [d2 EXCEPT
                 !.flag_reg = (@ \cup {ChannelGroupFlag(g) :
                                          g \in Groups \ changrp})
                              \cup {FLAG_FILTER},
                 !.rle_count = 0]
        fault == IF fd = FD_CLOSED THEN "write_trigger" ELSE fault0
        srcs1 == sr_source_add(srcs, fd, -1)
    IN  IF inst.status # "ACTIVE"
          THEN StartResult(SR_ERR, d0, srcs, << >>, FALSE, NoProgram)
        ELSE IF cp.ret # SR_OK
          THEN StartResult(SR_ERR, d1, srcs, << >>, FALSE, NoProgram)
        ELSE IF num_channels = 0 /\ ub = "trap"
          THEN StartResult(SR_ERR, d1, srcs, << >>, TRUE, NoProgram)
        ELSE IF fault \in {"write_trigger", "write_divider",
                           "write_capture_size"}
          THEN StartResult(SR_ERR, d2, srcs, << >>, FALSE, prog)
        ELSE IF fault \in {"write_flags", "write_run"}
          THEN StartResult(SR_ERR, d3, srcs, << >>, FALSE, prog)
        ELSE IF fault \in {"malloc_packet", "malloc_header"}
          THEN StartResult(SR_ERR_MALLOC, d3, srcs1, << >>, FALSE, prog)
        ELSE StartResult(SR_OK, d3, srcs1,
                 << HeaderPacket,
                    MetaLogicPacket(NUM_PROBES, d3.cur_samplerate) >>,
                 FALSE, prog)

hw_dev_acquisition_start(fault, ub, oob) ==
    /\ ~crashed
    /\ call' = Call("acquisition_start", "", 0)
    /\ LET r == dev_acquisition_start(sdi, devc, serial_fd, source,
                                      fault, ub, oob)
       IN /\ ret' = r.ret
          /\ devc' = r.devc
          /\ source' = r.source
          /\ feed' = r.feed
          /\ crashed' = r.trap
    /\ UNCHANGED <<sdi, serial_fd>>


(***************************************************************************)
(* receive_data(fd, revents, cb_data), called by the session loop for the  *)
(* registered source.                                                      *)
(*   ev:       "IN" (revents == G_IO_IN) or "TIMEOUT";                     *)
(*   byte:     the byte serial_read delivers; read_ok = FALSE: it fails;   *)
(*   alloc_ok: whether g_try_malloc of the sample buffer succeeds          *)
(*             (g_try_malloc(0) returns NULL);                             *)
(*   ub:       "trap" or "go" (the access goes through unnoticed) where    *)
(*             the code touches memory it does not own.                    *)
(* The result carries ret = 1 (TRUE) or 0 (FALSE); on FALSE the session    *)
(* loop removes the source.                                                *)
(***************************************************************************)
NumChannels(flag_reg) ==
    Cardinality({g \in Groups : ChannelGroupFlag(g) \notin flag_reg})

\* lines 792-804: tmp_sample[i] = sample[j++] for every enabled group i
\* the sample left as received, not expanded
ExpandSample_packed(sample, flag_reg) == sample

ExpandSample(sample, flag_reg) ==
    [i \in 1..4 |->
        IF ChannelGroupFlag(i - 1) \notin flag_reg
        THEN sample[Cardinality({g \in Groups :
                        g < i - 1 /\ ChannelGroupFlag(g) \notin flag_reg}) + 1]
        ELSE 0]

\* *(int *)(devc->sample) on a little-endian host
SampleAsInt(sample) ==
    sample[1] + 256 * sample[2] + 65536 * sample[3] + 16777216 * sample[4]

\* devc->sample[devc->num_bytes++] = byte; sample[4] is followed in
\* struct dev_context by tmp_sample[4] and then by the raw_sample_buf pointer
StoreByte(d, byte) ==
    LET idx == d.num_bytes
    IN  IF idx < 4
        THEN [d EXCEPT !.sample[idx + 1] = byte, !.num_bytes = idx + 1]
        ELSE IF idx < 8
        THEN [d EXCEPT !.tmp_sample[idx - 3] = byte, !.num_bytes = idx + 1]
        ELSE [d EXCEPT !.raw_sample_buf = [state |-> "wild", bytes |-> << >>],
                       !.num_bytes = idx + 1]

\* the memcpy loop of lines 812-816
WriteSamples(buf, offset, rle_count, smp) ==
    LET old == buf.bytes
    IN  [buf EXCEPT !.bytes =
            [k \in 1..Len(old) |->
                IF k > offset /\ k <= offset + 4 * (rle_count + 1)
                THEN smp[((k - 1 - offset) % 4) + 1]
                ELSE old[k]]]

WriteInBounds(buf, offset, rle_count) ==
    /\ buf.state = "alloc"
    /\ offset >= 0
    /\ offset + 4 * (rle_count + 1) <= Len(buf.bytes)

RecvResult(r, d, srcs, pkts, fd, trap) ==
    [ret |-> r, devc |-> d, source |-> srcs, feed |-> pkts, fd |-> fd,
     trap |-> trap]

\* a complete sample has been gathered in d.sample (lines 755-819)
GotSample(d, srcs, pkts, fd, ub) ==
    LET n == d.num_bytes
        isCount == FLAG_RLE \in d.flag_reg /\ d.sample[n] >= 128
        stripped == [d.sample EXCEPT ![n] = @ - 128]
        ns0 == d.num_samples + d.rle_count + 1
        over == ns0 > d.limit_samples
        rle == IF over THEN d.rle_count - (ns0 - d.limit_samples)
                       ELSE d.rle_count
        ns == IF over THEN d.limit_samples ELSE ns0
        smp == IF n < 4 THEN ExpandSample(d.sample, d.flag_reg) ELSE d.sample
        offset == (d.limit_samples - ns) * 4
        inb == WriteInBounds(d.raw_sample_buf, offset, rle)
        buf == IF d.raw_sample_buf.state = "alloc"
               THEN WriteSamples(d.raw_sample_buf, offset, rle, smp)
               ELSE d.raw_sample_buf
    IN  IF isCount
        THEN RecvResult(1, [d EXCEPT !.sample = stripped,
                                     !.rle_count = SampleAsInt(stripped),
                                     !.num_bytes = 0],
                        srcs, pkts, fd, FALSE)
        ELSE IF ~inb /\ ub = "trap"
        THEN RecvResult(1, d, srcs, pkts, fd, TRUE)
        ELSE RecvResult(1, [d EXCEPT !.num_samples = ns,
                                     !.tmp_sample = IF n < 4 THEN smp ELSE @,
                                     !.raw_sample_buf = buf,
                                     !.sample = <<0, 0, 0, 0>>,
                                     !.num_bytes = 0,
                                     !.rle_count = 0],
                        srcs, pkts, fd, FALSE)

\* revents == G_IO_IN (lines 744-820)
ReceiveByte(d, srcs, pkts, fd, byte, read_ok, ub) ==
    IF ~read_ok
    THEN RecvResult(0, d, << >>, pkts, fd, FALSE)
    ELSE IF d.num_samples >= d.limit_samples
    THEN RecvResult(1, d, srcs, pkts, fd, FALSE)
    ELSE LET d1 == StoreByte(d, byte)
         IN  IF d1.num_bytes = NumChannels(d1.flag_reg)
             THEN GotSample(d1, srcs, pkts, fd, ub)
             ELSE RecvResult(1, d1, srcs, pkts, fd, FALSE)

\* the timeout branch (lines 821-869)
ReceiveTimeout(d, srcs, pkts, fd, ub) ==
    LET buf == d.raw_sample_buf
        base == (d.limit_samples - d.num_samples) * 4
        pre == IF d.trigger_at > 0
               THEN << LogicPacket(buf, base, d.trigger_at * 4) >>
               ELSE << >>
        post == LogicPacket(buf, base + d.trigger_at * 4,
                            d.num_samples * 4 - d.trigger_at * 4)
        sent == IF d.trigger_at # -1
                THEN pre \o << TriggerPacket, post >>
                ELSE << LogicPacket(buf, base, d.num_samples * 4) >>
        badfree == buf.state \in {"freed", "wild"}
        freed == IF buf.state = "null" THEN buf
                 ELSE [state |-> "freed", bytes |-> << >>]
        a == abort_acquisition(srcs, fd, pkts \o sent)
    IN  IF badfree /\ ub = "trap"
        THEN RecvResult(1, d, srcs, pkts \o sent, fd, TRUE)
        ELSE RecvResult(1, [d EXCEPT !.raw_sample_buf = freed],
                        a.source, a.feed, FD_CLOSED, FALSE)

\* lines 703-736, then one of the two branches
receive(d, srcs, pkts, fd, ev, byte, read_ok, alloc_ok, ub) ==
    LET first == d.num_transfers = 0
        d1 == [d EXCEPT !.num_transfers = @ + 1]
        srcs1 == IF first
                 THEN sr_source_add(sr_source_remove(srcs, fd), fd, 30)
                 ELSE srcs
        nomem == first /\ (d.limit_samples = 0 \/ ~alloc_ok)
        d2 == IF first
              THEN [d1 EXCEPT !.raw_sample_buf =
                      IF nomem THEN [state |-> "null", bytes |-> << >>]
                      ELSE [state |-> "alloc",
                            bytes |-> [k \in 1..(d.limit_samples * 4)
                                          |-> 130]]]
              ELSE d1
    IN  IF srcs[1].fd # fd
        THEN RecvResult(1, d, srcs, pkts, fd, FALSE)
        ELSE IF nomem
        THEN RecvResult(0, d2, << >>, pkts, fd, FALSE)
        ELSE IF ev = "IN"
        THEN ReceiveByte(d2, srcs1, pkts, fd, byte, read_ok, ub)
        ELSE ReceiveTimeout(d2, srcs1, pkts, fd, ub)

receive_data(ev, byte, read_ok, alloc_ok, ub) ==
    /\ ~crashed
    /\ source # << >>
    /\ ev = "TIMEOUT" => source[1].timeout > 0
    /\ call' = Call("receive_data", ev, byte)
    /\ LET r == receive(devc, source, feed, serial_fd, ev, byte,
                        read_ok, alloc_ok, ub)
       IN /\ ret' = r.ret
          /\ devc' = r.devc
          /\ source' = r.source
          /\ feed' = r.feed
          /\ serial_fd' = r.fd
          /\ crashed' = r.trap
    /\ UNCHANGED sdi


(***************************************************************************)
(* The frontend enabling probes and setting trigger expressions            *)
(* (sr_dev_probe_enable, sr_dev_trigger_set of device.c; not part of the   *)
(* sources at hand, modelled from section 3 of the specification): the     *)
(* probes of the instance take one of the configurations below.            *)
(***************************************************************************)
GroupProbes(groups) == {p \in ProbeIdx : (p \div 8) \in groups}

ProbeSetup(groups, triggers) ==
    [enabled |-> GroupProbes(groups), trigger |-> triggers]

OneGroup == ProbeSetup({0}, << >>)
OtherGroup == ProbeSetup({1}, << >>)
OneStage == ProbeSetup({0}, 0 :> <<"1">>)
\* probe 16 is disabled and carries a trigger expression
TwoStages == ProbeSetup({0, 1}, (0 :> <<"1", "0">>) @@ (9 :> <<"1">>)
                                 @@ (16 :> <<"1">>))
FourStages == ProbeSetup({0}, 0 :> <<"1", "0", "1", "0">>)
NoProbes == ProbeSetup({}, << >>)

ProbeSetups == {OneGroup, OtherGroup, OneStage, TwoStages, FourStages,
                NoProbes}

set_probes(setup) ==
    /\ ~crashed
    /\ call' = Call("set_probes", "", 0)
    /\ sdi' = [sdi EXCEPT !.probes = setup]
    /\ ret' = SR_OK
    /\ UNCHANGED <<devc, serial_fd, source, feed, crashed>>

(***************************************************************************)
(* Inputs.                                                                 *)
(***************************************************************************)
\* bytes the device sends: one plain value, one with the high bit set
Bytes == {1, 131}

UbOutcomes == {"trap", "go"}
OobTargets == {"none", "readcount", "changrp_mask"}

\* the configuration calls a frontend makes between acquisitions
AcqConfigs ==
    { <<"LIMIT_SAMPLES", 4>>, <<"LIMIT_SAMPLES", 5>>,
      <<"CAPTURE_RATIO", 50>>, <<"RLE", 1>> }

\* the configuration calls of the configuration model
Hwcaps == {"SAMPLERATE", "LIMIT_SAMPLES", "CAPTURE_RATIO", "RLE",
           "LIMIT_MSEC", "CONTINUOUS"}
Rates == {0, 5, 9, 10, 7000, 30000000, 99999999, 100000000, 100000001,
          150000000, 200000000, 200000001, 250000000, 300000001}
ConfigValues(hwcap) ==
    CASE hwcap = "SAMPLERATE" -> Rates
      [] hwcap = "LIMIT_SAMPLES" -> {3, 4, 5}
      [] hwcap = "CAPTURE_RATIO" -> {50, 100, 101}
      [] OTHER -> {0, 1}

(***************************************************************************)
(* The acquisition model starts from a device that the frontend has        *)
(* opened and configured: the metadata the device reported, the config_set *)
(* calls made (applied with dev_config_set, in order) and the probe setup. *)
(***************************************************************************)
RECURSIVE Configured(_, _)
Configured(d, calls) ==
    IF calls = << >> THEN d
    ELSE Configured(dev_config_set("ACTIVE", d, Head(calls)[1],
                                   Head(calls)[2], "trap").devc,
                    Tail(calls))

OlsMeta == <<24576, SR_MHZ(200)>>
NoMeta == <<0, 0>>

Devices ==
    { [meta |-> OlsMeta, calls |-> << <<"LIMIT_SAMPLES", 4>> >>,
       probes |-> OneGroup],
      [meta |-> OlsMeta,
       calls |-> << <<"LIMIT_SAMPLES", 4>>, <<"RLE", 1>> >>,
       probes |-> OneGroup],
      [meta |-> OlsMeta,
       calls |-> << <<"LIMIT_SAMPLES", 4>>, <<"CAPTURE_RATIO", 50>> >>,
       probes |-> OneStage],
      [meta |-> OlsMeta, calls |-> << <<"LIMIT_SAMPLES", 4>> >>,
       probes |-> OneStage],
      [meta |-> OlsMeta, calls |-> << <<"LIMIT_SAMPLES", 4>> >>,
       probes |-> TwoStages],
      [meta |-> OlsMeta,
       calls |-> << <<"LIMIT_SAMPLES", 5>>, <<"SAMPLERATE", 30000000>> >>,
       probes |-> ProbeSetup({0, 2}, << >>)],
      [meta |-> OlsMeta, calls |-> << <<"LIMIT_SAMPLES", 4>> >>,
       probes |-> ProbeSetup({0, 1, 3}, << >>)],
      [meta |-> NoMeta, calls |-> << >>, probes |-> ScanProbes],
      [meta |-> NoMeta, calls |-> << <<"LIMIT_SAMPLES", 4>> >>,
       probes |-> ScanProbes],
      [meta |-> NoMeta,
       calls |-> << <<"LIMIT_SAMPLES", 4>>, <<"RLE", 1>> >>,
       probes |-> ScanProbes] }

\* the devices of SpecRe
DevicesRe ==
    { dev \in Devices :
         \/ dev.meta = OlsMeta /\ Len(dev.calls) = 1
         \/ dev.meta = NoMeta /\ Len(dev.calls) = 2 }

InitOn(devices, faulty) ==
    /\ \E dev \in devices :
          /\ devc = Configured(ols_dev_new(dev.meta[1], dev.meta[2]),
                               dev.calls)
          /\ sdi = [status |-> "ACTIVE", probes |-> dev.probes]
    /\ serial_fd = FD_OPEN
    /\ source = << >>
    /\ feed = << >>
    /\ call = Call("dev_open", "", 0)
    /\ ret = SR_OK
    /\ crashed = FALSE
    /\ acq = AcqInit(faulty)
    /\ OthersRest

Init == InitOn(Devices, FALSE)
InitRe == InitOn(DevicesRe, FALSE)
InitFault == InitOn(Devices, TRUE)

(***************************************************************************)
(* Steps of the acquisition models.  acq counts the frontend's calls, the  *)
(* byte events and the faults of the environment (the bounds) and records  *)
(* how the acquisition started                                             *)
(* last has gone so far:                                                   *)
(*   "running"   started successfully, only byte events since;             *)
(*   "completed" a running acquisition that then got its timeout event;    *)
(*   anything else: it was stopped, failed or was interfered with;         *)
(* rx, the bytes serial_read has delivered to it, in order; and prog,     *)
(* what the call that ran last, if it was a start call, worked out and     *)
(* sent to the device.                                                     *)
(* The frontend's calls come in this order: stop calls follow the events   *)
(* of an acquisition; then, with no source registered, it may close or     *)
(* reopen the port, then reconfigure the device, then start again.         *)
(* A fault is a failing serial_open, serial_write, serial_read or          *)
(* g_try_malloc.                                                           *)
(***************************************************************************)
Disturb(phase) == IF phase = "running" THEN "disturbed" ELSE phase

AfterAcquisitionEvent ==
    call.op \in {"acquisition_start", "receive_data", "acquisition_stop"}

MayFail == acq.faults < MaxFault /\ acq.faulty

OpenStep(allowed) ==
    /\ allowed
    /\ serial_fd = FD_CLOSED
    /\ call.op \notin {"config_set", "set_probes"}
    /\ \E ok \in (IF MayFail THEN BOOLEAN ELSE {TRUE}) :
          /\ hw_dev_open(ok)
          /\ acq' = [acq EXCEPT !.prog = NoProgram, !.calls = @ + 1,
                                !.phase = Disturb(@),
                                !.faults = IF ok THEN @ ELSE @ + 1]
    /\ UNCHANGED <<scan, dmm, dsl>>

CloseStep(allowed) ==
    /\ allowed
    /\ source = << >>
    /\ serial_fd # FD_CLOSED
    /\ AfterAcquisitionEvent
    /\ hw_dev_close
    /\ acq' = [acq EXCEPT !.prog = NoProgram, !.calls = @ + 1,
                          !.phase = Disturb(@)]
    /\ UNCHANGED <<scan, dmm, dsl>>

ConfigStep(allowed) ==
    /\ allowed
    /\ acq.phase # "idle"
    /\ source = << >>
    /\ \E c \in AcqConfigs : hw_dev_config_set(c[1], c[2], "trap")
    /\ acq' = [acq EXCEPT !.prog = NoProgram, !.calls = @ + 1]
    /\ UNCHANGED <<scan, dmm, dsl>>

ProbeStep(allowed) ==
    /\ allowed
    /\ acq.phase # "idle"
    /\ source = << >>
    /\ \E setup \in ProbeSetups : set_probes(setup)
    /\ acq' = [acq EXCEPT !.prog = NoProgram, !.calls = @ + 1]
    /\ UNCHANGED <<scan, dmm, dsl>>

StartUb == IF sdi.probes.enabled = {} THEN {"trap", "zero"} ELSE {"zero"}
StartOob ==
    IF \A p \in sdi.probes.enabled : ProbeTrigger(sdi.probes, p) = << >>
    THEN OobTargets ELSE {"none"}

StartStep(allowed) ==
    /\ allowed
    /\ \E fault \in (IF MayFail THEN StartFaults ELSE {"none"}),
          ub \in StartUb, oob \in StartOob :
          /\ hw_dev_acquisition_start(fault, ub, oob)
          /\ acq' = [acq EXCEPT
                       !.calls = @ + 1,
                       !.starts = @ + 1,
                       !.rx = << >>,
                       !.prog = dev_acquisition_start(sdi, devc, serial_fd,
                                   source, fault, ub, oob).prog,
                       !.faults = IF fault = "none" THEN @ ELSE @ + 1,
                       !.phase = IF ret' = SR_OK /\ ~crashed'
                                 THEN "running" ELSE "startfail"]
    /\ UNCHANGED <<scan, dmm, dsl>>

\* the outcomes worth telling apart in receive_data:
\* <<byte, read_ok, alloc_ok>> and ub
RecvIn(bytes) ==
    {<<b, TRUE, TRUE>> : b \in bytes}
    \cup (IF MayFail THEN {<<0, FALSE, TRUE>>} ELSE {})
    \cup (IF MayFail /\ devc.num_transfers = 0
          THEN {<<b, TRUE, FALSE>> : b \in bytes} ELSE {})
RecvUb ==
    IF \/ devc.num_transfers = 0
       \/ /\ devc.raw_sample_buf.state = "alloc"
          /\ Len(devc.raw_sample_buf.bytes) = devc.limit_samples * 4
    THEN {"go"} ELSE UbOutcomes

RecvStep(bytes, limit) ==
    /\ acq.recvd < limit
    /\ \E in \in RecvIn(bytes), ub \in RecvUb :
          /\ receive_data("IN", in[1], in[2], in[3], ub)
          /\ acq' = [acq EXCEPT
                       !.prog = NoProgram,
                       !.recvd = @ + 1,
                       !.rx = IF ret' = 1 /\ serial_fd = source[1].fd
                              THEN Append(@, in[1]) ELSE @,
                       !.faults = IF in[2] /\ in[3] THEN @ ELSE @ + 1,
                       !.phase = IF \/ ret' = 0
                                    \/ crashed'
                                    \/ serial_fd # source[1].fd
                                 THEN "failed" ELSE @]
    /\ UNCHANGED <<scan, dmm, dsl>>

RecvTimeout ==
    /\ \E ub \in RecvUb : receive_data("TIMEOUT", 0, TRUE, TRUE, ub)
    /\ acq' = [acq EXCEPT !.prog = NoProgram,
                          !.phase = IF @ = "running" /\ ~crashed'
                                    THEN "completed" ELSE "ended"]
    /\ UNCHANGED <<scan, dmm, dsl>>

StopStep(allowed) ==
    /\ allowed
    /\ AfterAcquisitionEvent
    /\ hw_dev_acquisition_stop
    /\ acq' = [acq EXCEPT !.prog = NoProgram, !.calls = @ + 1, !.stops = @ + 1,
                          !.phase = "stopped"]
    /\ UNCHANGED <<scan, dmm, dsl>>

(***************************************************************************)
(* Spec: acquisitions on a configured device, with every byte the device   *)
(* may send, in an environment that does not fail.                         *)
(***************************************************************************)
DevOpen == OpenStep(TRUE)
Start == StartStep(acq.starts < MaxAcq)
RecvByte == RecvStep(Bytes, MaxRecv)
Stop == StopStep(acq.stops < MaxStop)

Next ==
    \/ DevOpen
    \/ Start
    \/ RecvByte
    \/ RecvTimeout
    \/ Stop

Spec == Init /\ [][Next]_vars

(***************************************************************************)
(* SpecRe: a device instance used for one acquisition after another, the   *)
(* frontend closing, reopening and reconfiguring it in between; the device *)
(* sends the plain byte only and the environment does not fail.            *)
(***************************************************************************)
MoreCalls == acq.calls < MaxReCalls

DevOpenAgain == OpenStep(MoreCalls)
DevClose == CloseStep(MoreCalls)
ConfigSet == ConfigStep(MoreCalls)
SetProbes == ProbeStep(MoreCalls)
StartAgain == StartStep(MoreCalls)
RecvByteAgain == RecvStep({1}, MaxReRecv)
StopAgain == StopStep(MoreCalls)

NextRe ==
    \/ DevOpenAgain
    \/ DevClose
    \/ ConfigSet
    \/ SetProbes
    \/ StartAgain
    \/ RecvByteAgain
    \/ RecvTimeout
    \/ StopAgain

SpecRe == InitRe /\ [][NextRe]_vars

(***************************************************************************)
(* SpecFault: one acquisition in an environment that fails up to MaxFault  *)
(* times (serial_open, serial_write, serial_read, g_try_malloc); the       *)
(* device sends the plain byte only.                                       *)
(***************************************************************************)
RecvByteFaulty == RecvStep({1}, MaxFaultRecv)

NextFault ==
    \/ DevOpen
    \/ Start
    \/ RecvByteFaulty
    \/ RecvTimeout
    \/ Stop

SpecFault == InitFault /\ [][NextFault]_vars

(***************************************************************************)
(* The configuration model: dev_open, dev_close and every config_set call  *)
(* of the input sets, in any order, on the device hw_scan found.           *)
(***************************************************************************)
ConfigAny ==
    /\ \E hwcap \in Hwcaps : \E value \in ConfigValues(hwcap) :
          \E ub \in {"trap", "zero"} : hw_dev_config_set(hwcap, value, ub)
    /\ UNCHANGED <<acq, scan, dmm, dsl>>

OpenCfg ==
    /\ \E ok \in BOOLEAN : hw_dev_open(ok)
    /\ UNCHANGED <<acq, scan, dmm, dsl>>

CloseCfg ==
    /\ hw_dev_close
    /\ UNCHANGED <<acq, scan, dmm, dsl>>

NextCfg ==
    \/ OpenCfg
    \/ CloseCfg
    \/ ConfigAny

SpecCfg == InitCfg /\ [][NextCfg]_vars

(***************************************************************************)
(* hw_scan: the discovery procedure.  scan records drvc->instances, the    *)
(* list hw_scan returned, the state of the port it opened (fd), the        *)
(* command bytes it handed to serial_write in order (wire) and what        *)
(* serial_read gave it (nread, buf); wire, buf and fd are those of the     *)
(* last call.                                                              *)
(***************************************************************************)
CMD_RESET == 0
CMD_ID == 2
CMD_METADATA == 4

G_IO_IN == 1
G_IO_HUP == 16

\* strncmp of two byte strings that hold no NUL in their first n bytes
strncmp(a, b, n) == IF \A i \in 1..n : a[i] = b[i] THEN 0 ELSE 1

\* only the two outer bytes of the word change places, the inner are lost
reverse32_outer(in) == (in % 256) * 16777216 + (in \div 16777216)

\* reverse32 on a 32-bit word
reverse32(in) ==
    (in % 256) * 16777216 + ((in \div 256) % 256) * 65536
       + ((in \div 65536) % 256) * 256 + (in \div 16777216)

\* static const char *probe_names[NUM_PROBES + 1], indexed from 0:
\* probe_names[i] is element i + 1, the last one is the NULL pointer
probe_names ==
    << "0", "1", "2", "3", "4", "5", "6", "7", "8", "9", "10", "11", "12",
       "13", "14", "15", "16", "17", "18", "19", "20", "21", "22", "23",
       "24", "25", "26", "27", "28", "29", "30", "31", "NULL" >>

(***************************************************************************)
(* get_metadata reads the frame byte by byte with serial_read; rest is     *)
(* what the device has sent and the function has not read yet, a read      *)
(* from an empty rest fails.  st gathers what the function stores:         *)
(* devname and the probe list, version as the list of the labelled texts   *)
(* appended to it, the three numbers, and keys, the bytes it took for a    *)
(* key.  A 32-bit value is read into a uint32_t of a little-endian host.   *)
(* Reading probe_names[ui] for ui > NUM_PROBES is a read past the array:   *)
(* with ub = "trap" the process dies (st.trap), else the name is whatever  *)
(* the memory holds ("<wild>").                                            *)
(***************************************************************************)
RECURSIVE MetaLoop(_, _, _)
MetaLoop(st, rest, ub) ==
    IF st.trap \/ rest = << >> \/ Head(rest) = 0 THEN st
    ELSE
    LET key == Head(rest)
        type == key \div 32
        token == key % 32
        body == Tail(rest)
        st1 == [st EXCEPT !.keys = Append(@, key)]
        After(n) == SubSeq(body, n + 1, Len(body))
        \* the characters up to the NUL or to the end of what arrived
        slen == CHOOSE n \in 0..Len(body) :
                   /\ \A i \in 1..n : body[i] # 0
                   /\ n = Len(body) \/ body[n + 1] = 0
        str == SubSeq(body, 1, slen)
        Text(label) == [label |-> label, text |-> str]
        StoreString ==
            IF token = 1 THEN [st1 EXCEPT !.devname = @ \o str]
            ELSE IF token = 2
            THEN [st1 EXCEPT !.version = Append(@, Text("FPGA version "))]
            ELSE IF token = 3
            THEN [st1 EXCEPT
                    !.version = Append(@, Text("Ancillary version "))]
            ELSE st1
        \* the loops of lines 296-301 and 334-339
        AddProbes(n) ==
            IF n > NUM_PROBES + 1 /\ ub = "trap"
            THEN [st1 EXCEPT !.trap = TRUE]
            ELSE [st1 EXCEPT !.probes = @ \o
                    [k \in 1..n |->
                        [index |-> k - 1, enabled |-> TRUE,
                         name |-> IF k <= NUM_PROBES + 1
                                  THEN probe_names[k] ELSE "<wild>"]]]
        tmp_int == reverse32(body[1] + body[2] * 256 + body[3] * 65536
                             + body[4] * 16777216)
        StoreWord ==
            IF token = 0 THEN AddProbes(tmp_int)
            ELSE IF token = 1 THEN [st1 EXCEPT !.max_samples = tmp_int]
            ELSE IF token = 3 THEN [st1 EXCEPT !.max_samplerate = tmp_int]
            ELSE IF token = 4
            THEN [st1 EXCEPT !.protocol_version = tmp_int]
            ELSE st1
        tmp_c == body[1]
        StoreChar ==
            IF token = 0 THEN AddProbes(tmp_c)
            ELSE IF token = 1 THEN [st1 EXCEPT !.protocol_version = tmp_c]
            ELSE st1
    IN  IF type = 0 THEN MetaLoop(StoreString, After(slen + 1), ub)
        ELSE IF type = 1
        THEN IF Len(body) < 4 THEN st1
             ELSE MetaLoop(StoreWord, After(4), ub)
        ELSE IF type = 2
        THEN IF Len(body) < 1 THEN st1
             ELSE MetaLoop(StoreChar, After(1), ub)
        ELSE MetaLoop(st1, body, ub)

\* the instance get_metadata returns for the bytes the device sent
get_metadata(stream, ub) ==
    LET st == MetaLoop([ devname |-> << >>, version |-> << >>,
                         max_samples |-> 0, max_samplerate |-> 0,
                         protocol_version |-> 0, probes |-> << >>,
                         keys |-> << >>, trap |-> FALSE ],
                       stream, ub)
    IN  [ vendor |-> "",
          model |-> st.devname,
          version |-> st.version,
          status |-> "INACTIVE",
          devc |-> ols_dev_new(st.max_samples, st.max_samplerate),
          protocol_version |-> st.protocol_version,
          probe_list |-> st.probes,
          probes |-> [enabled |-> {st.probes[k].index :
                                      k \in 1..Len(st.probes)},
                      trigger |-> << >>],
          keys |-> st.keys,
          trap |-> st.trap ]

\* the generic instance of the sump protocol
SumpInstance ==
    [ vendor |-> "Sump",
      model |-> "Logic Analyzer",
      version |-> "v1.0",
      status |-> "INACTIVE",
      devc |-> ols_dev_new(0, 0),
      protocol_version |-> 0,
      probe_list |-> [k \in 1..32 |->
                         [index |-> k - 1, enabled |-> TRUE,
                          name |-> probe_names[k]]],
      probes |-> ScanProbes,
      keys |-> << >>,
      trap |-> FALSE ]

\* hw_scan returns: devs is the list it returns, meta the metadata frame
\* it has read
ScanReturn(fd, wire, nread, buf, devs, meta) ==
    scan' = [ instances |-> scan.instances \o devs,
              devices |-> devs,
              fd |-> fd,
              wire |-> wire,
              buf |-> buf,
              nread |-> nread,
              meta |-> meta,
              calls |-> scan.calls + 1 ]

\* A metadata frame as the device sends it: entries of a key and its
\* value (the characters of a string, the 4 bytes of a 32-bit value, the
\* byte of an 8-bit value, nothing for a key of another type), then the
\* bytes of end.  Stream is the frame on the wire: a string is followed
\* by its NUL.
RECURSIVE Stream(_)
Stream(frame) ==
    IF frame.entries = << >> THEN frame.end
    ELSE LET e == Head(frame.entries)
         IN  << e.key >> \o e.value
                \o (IF e.key \div 32 = 0 THEN << 0 >> ELSE << >>)
                \o Stream([frame EXCEPT !.entries = Tail(@)])

\* the bytes of the two Id answers
Id_1SLO == <<"1", "S", "L", "O">>
Id_1ALS == <<"1", "A", "L", "S">>

\* whether the answer is neither of the two Ids (line 453)
IdMismatch_prefix(buf) ==
    strncmp(buf, Id_1SLO, 3) # 0 /\ strncmp(buf, Id_1ALS, 3) # 0
IdMismatch(buf) ==
    strncmp(buf, Id_1SLO, 4) # 0 /\ strncmp(buf, Id_1ALS, 4) # 0

\* conn: the options name a port; open_ok: serial_open succeeds;
\* wfail: which of the serial_write calls fails (0: none);
\* resp: the bytes the device has sent when hw_scan polls, revents what
\* g_poll reports; read_ok: serial_read succeeds;
\* meta: << >>, or the metadata frame that arrives after the Metadata
\* command; ub: the outcome of a read past probe_names in get_metadata,
\* "trap" kills the process inside hw_scan
hw_scan(conn, open_ok, wfail, resp, revents, read_ok, meta, ub) ==
    LET resets == IF wfail \in 1..5 THEN wfail ELSE 5
        w_reset == [i \in 1..resets |-> CMD_RESET]
        w_id == Append(w_reset, CMD_ID)
        w_meta == Append(w_id, CMD_METADATA)
        nread == IF read_ok THEN Min(4, Len(resp)) ELSE 0 - 1
        buf == IF nread > 0 THEN SubSeq(resp, 1, nread) ELSE << >>
        found == IF meta # << >> THEN get_metadata(Stream(meta[1]), ub)
                 ELSE SumpInstance
    IN  IF ~conn \/ ~open_ok
        THEN ScanReturn(FD_CLOSED, << >>, 0, << >>, << >>, << >>)
        ELSE IF wfail \in 1..5
        THEN ScanReturn(FD_CLOSED, w_reset, 0, << >>, << >>, << >>)
        ELSE IF revents # G_IO_IN
        THEN ScanReturn(FD_OPEN, w_id, 0, << >>, << >>, << >>)
        ELSE IF nread # 4
        THEN ScanReturn(FD_OPEN, w_id, nread, buf, << >>, << >>)
        ELSE IF IdMismatch(buf)
        THEN ScanReturn(FD_OPEN, w_id, nread, buf, << >>, << >>)
        ELSE IF found.trap
        THEN ScanReturn(FD_OPEN, w_meta, nread, buf, << >>, meta)
        ELSE ScanReturn(FD_CLOSED, w_meta, nread, buf, <<found>>, meta)

\* hw_cleanup (also the driver's dev_clear): the instance list is emptied
hw_cleanup ==
    scan' = [scan EXCEPT !.instances = << >>]

(***************************************************************************)
(* SpecScan: hw_scan called up to MaxScan times, on ports that may be      *)
(* missing, fail to open or fail to take a write, with devices that        *)
(* answer the Id command in every way of Responses, and hw_cleanup in      *)
(* between.                                                                *)
(***************************************************************************)
MaxScan == 2

Responses ==
    { << >>, <<"1">>, <<"1", "S", "L">>, Id_1SLO, Id_1ALS,
      <<"1", "S", "L", "S">>, <<"O", "L", "S", "1">>,
      <<"1", "A", "L", "S", "1">> }

\* what g_poll can report for the port
Revents(resp) ==
    IF resp = << >> THEN {0, G_IO_HUP} ELSE {G_IO_IN, G_IO_IN + G_IO_HUP}

\* the frames of three devices: sample memory, maximum samplerate and
\* probe count of 24576, 200 MHz, 32; of 16, 300 MHz, 8; and none at all
MetadataFrames ==
    { [entries |-> << [key |-> 33, value |-> <<0, 0, 96, 0>>],
                      [key |-> 35, value |-> <<11, 235, 194, 0>>],
                      [key |-> 64, value |-> <<32>>] >>,
       end |-> <<0>>],
      [entries |-> << [key |-> 33, value |-> <<0, 0, 0, 16>>],
                      [key |-> 35, value |-> <<17, 225, 163, 0>>],
                      [key |-> 64, value |-> <<8>>] >>,
       end |-> <<0>>],
      [entries |-> << >>, end |-> <<0>>] }

\* after hw_init: no instance yet
InitScan ==
    /\ devc = ols_dev_new(0, 0)
    /\ sdi = [status |-> "INACTIVE", probes |-> ScanProbes]
    /\ serial_fd = FD_CLOSED
    /\ source = << >>
    /\ feed = << >>
    /\ call = Call("init", "", 0)
    /\ ret = SR_OK
    /\ crashed = FALSE
    /\ acq = AcqInit(TRUE)
    /\ OthersRest

Scan ==
    /\ scan.calls < MaxScan
    /\ \E conn \in BOOLEAN, open_ok \in BOOLEAN, wfail \in 0..7,
          resp \in Responses, read_ok \in BOOLEAN,
          meta \in {<< >>} \cup {<<m>> : m \in MetadataFrames} :
          \E revents \in Revents(resp) :
             hw_scan(conn, open_ok, wfail, resp, revents, read_ok, meta,
                     "go")
    /\ UNCHANGED <<ols_vars, dmm, dsl>>

Cleanup ==
    /\ scan.instances # << >>
    /\ hw_cleanup
    /\ UNCHANGED <<ols_vars, dmm, dsl>>

NextScan ==
    \/ Scan
    \/ Cleanup

SpecScan == InitScan /\ [][NextScan]_vars

(***************************************************************************)
(* SpecMeta: hw_scan on a device that answers the Id command and then      *)
(* sends a metadata frame of up to MaxKeys entries of MetaEntries, ended   *)
(* by the 0x00 key, by the 0x00 key with further bytes behind it, or by    *)
(* nothing at all (the device falls silent).                               *)
(***************************************************************************)
MaxKeys == 2

MetaEntries ==
    { [key |-> 1, value |-> <<68, 69, 86>>],
      [key |-> 2, value |-> <<51>>],
      [key |-> 5, value |-> <<33>>],
      [key |-> 33, value |-> <<0, 0, 0, 32>>],
      [key |-> 33, value |-> <<0, 0, 96, 0>>],
      [key |-> 35, value |-> <<11, 235, 194, 0>>],
      [key |-> 36, value |-> <<0, 0, 0, 2>>],
      [key |-> 34, value |-> <<0, 0, 1, 0>>],
      [key |-> 47, value |-> <<0, 33, 0, 64>>],
      [key |-> 32, value |-> <<0, 0, 0, 8>>],
      [key |-> 64, value |-> <<8>>],
      [key |-> 64, value |-> <<33>>],
      [key |-> 64, value |-> <<40>>],
      [key |-> 65, value |-> <<2>>],
      [key |-> 74, value |-> <<33>>],
      [key |-> 96, value |-> << >>],
      [key |-> 255, value |-> << >>] }

MetaEnds == { <<0>>, <<0, 33, 0, 0, 0, 1>>, << >> }

MetaFrames ==
    [ entries : UNION { [1..n -> MetaEntries] : n \in 0..MaxKeys },
      end : MetaEnds ]

\* the outcomes of the read past probe_names, where the frame leads to one
MetaUb(frame) ==
    IF \E i \in 1..Len(frame.entries) :
          /\ frame.entries[i].key = 64
          /\ frame.entries[i].value[1] > NUM_PROBES + 1
    THEN UbOutcomes ELSE {"go"}

MetaScan ==
    /\ scan.calls = 0
    /\ \E frame \in MetaFrames : \E ub \in MetaUb(frame) :
          /\ hw_scan(TRUE, TRUE, 0, Id_1SLO, G_IO_IN, TRUE, <<frame>>, ub)
          /\ crashed' = get_metadata(Stream(frame), ub).trap
    /\ UNCHANGED <<sdi, devc, serial_fd, source, feed, call, ret, acq,
                   dmm, dsl>>

NextMeta ==
    \/ MetaScan
    \/ Cleanup

SpecMeta == InitScan /\ [][NextMeta]_vars

(***************************************************************************)
(* rs9lcd: the parser of the 9-byte frames of the RadioShack 22-812.       *)
(* A byte is a number in 0..255; a mask of one bit is tested with HasBit.  *)
(***************************************************************************)
\* byte 1 of the packet: the masks IND1_HZ .. IND1_MILI
IND1 ==
    [ HZ |-> 128,
      OHM |-> 64,
      KILO |-> 32,
      MEGA |-> 16,
      FARAD |-> 8,
      AMP |-> 4,
      VOLT |-> 2,
      MILI |-> 1 ]

\* byte 2 of the packet: the masks IND2_MICRO .. IND2_MIN
IND2 ==
    [ MICRO |-> 128,
      NANO |-> 64,
      DBM |-> 32,
      SEC |-> 16,
      DUTY |-> 8,
      HFE |-> 4,
      REL |-> 2,
      MIN |-> 1 ]

\* byte 7 of the packet: the masks INFO_HOLD, INFO_NEG, INFO_AUTO
INFO ==
    [ HOLD |-> 16,
      NEG |-> 8,
      AUTO |-> 1 ]

\* what the LCD values represent: LCD_0 .. LCD_9, LCD_C, LCD_h, LCD_H
LCD ==
    "0" :> 215 @@
    "1" :> 80 @@
    "2" :> 181 @@
    "3" :> 241 @@
    "4" :> 114 @@
    "5" :> 227 @@
    "6" :> 231 @@
    "7" :> 81 @@
    "8" :> 247 @@
    "9" :> 243 @@
    "C" :> 135 @@
    "h" :> 102 @@
    "H" :> 118

\* the modes MODE_DC_V .. MODE_INVALID
MODE ==
    [ DC_V |-> 0,
      AC_V |-> 1,
      DC_UA |-> 2,
      DC_MA |-> 3,
      DC_A |-> 4,
      AC_UA |-> 5,
      AC_MA |-> 6,
      AC_A |-> 7,
      OHM |-> 8,
      FARAD |-> 9,
      HZ |-> 10,
      VOLT_HZ |-> 11,
      AMP_HZ |-> 12,
      DUTY |-> 13,
      VOLT_DUTY |-> 14,
      AMP_DUTY |-> 15,
      WIDTH |-> 16,
      VOLT_WIDTH |-> 17,
      AMP_WIDTH |-> 18,
      DIODE |-> 19,
      CONT |-> 20,
      HFE |-> 21,
      LOGIC |-> 22,
      DBM |-> 23,
      TEMP |-> 25,
      INVALID |-> 26 ]

\* enum of the measured quantities SR_MQ_VOLTAGE ..
SR_MQ ==
    [ VOLTAGE |-> 10000,
      CURRENT |-> 10001,
      RESISTANCE |-> 10002,
      CAPACITANCE |-> 10003,
      TEMPERATURE |-> 10004,
      FREQUENCY |-> 10005,
      DUTY_CYCLE |-> 10006,
      CONTINUITY |-> 10007,
      PULSE_WIDTH |-> 10008,
      POWER |-> 10010,
      GAIN |-> 10011 ]

\* enum of the units SR_UNIT_VOLT ..
SR_UNIT ==
    [ VOLT |-> 10000,
      AMPERE |-> 10001,
      OHM |-> 10002,
      FARAD |-> 10003,
      CELSIUS |-> 10005,
      FAHRENHEIT |-> 10006,
      HERTZ |-> 10007,
      PERCENTAGE |-> 10008,
      BOOLEAN |-> 10009,
      SECOND |-> 10010,
      DECIBEL_MW |-> 10012,
      UNITLESS |-> 10014 ]

\* the flag bits SR_MQFLAG_AC ..
SR_MQFLAG ==
    [ AC |-> 1,
      DC |-> 2,
      DIODE |-> 8,
      HOLD |-> 16,
      MAX |-> 32,
      MIN |-> 64,
      AUTORANGE |-> 128 ]

DIG4_MAX == 8
DP_MASK == 8



READ_ALL == 0
READ_TEMP == 1

RS9LCD_PACKET_SIZE == 9




\* byte & mask # 0, for a mask of one bit
HasBit(byte, mask) == (byte \div mask) % 2 = 1
\* byte & ~mask
ClearBit(byte, mask) == IF HasBit(byte, mask) THEN byte - mask ELSE byte

\* struct rs9lcd_packet, and the frame as the bytes raw[0..8] (here 1..9)
Packet9(mode, ind1, ind2, d4, d3, d2, d1, info, checksum) ==
    [ mode |-> mode, indicatrix1 |-> ind1, indicatrix2 |-> ind2,
      digit4 |-> d4, digit3 |-> d3, digit2 |-> d2, digit1 |-> d1,
      info |-> info, checksum |-> checksum ]

RawBytes(p) ==
    << p.mode, p.indicatrix1, p.indicatrix2, p.digit4, p.digit3, p.digit2,
       p.digit1, p.info, p.checksum >>

RECURSIVE SumBytes(_, _)
SumBytes(raw, n) ==
    IF n = 0 THEN 0 ELSE (SumBytes(raw, n - 1) + raw[n]) % 256

checksum_valid_plain(p) ==
    (SumBytes(RawBytes(p), RS9LCD_PACKET_SIZE - 1) + 256 - p.checksum) % 256
       = 0
checksum_valid(p) ==
    (SumBytes(RawBytes(p), RS9LCD_PACKET_SIZE - 1) + 57 + 256 - p.checksum)
       % 256 = 0

\* selection_good, as the message it logs: "ok" when it returns TRUE;
\* each of its two counts is over a set of <<byte, mask>>
selection_good(p) ==
    LET multipliers ==
            { <<1, IND1.KILO>>, <<1, IND1.MEGA>>, <<1, IND1.MILI>>,
              <<2, IND2.MICRO>>, <<2, IND2.NANO>> }
        measurements ==
            { <<1, IND1.HZ>>, <<1, IND1.OHM>>, <<1, IND1.FARAD>>,
              <<1, IND1.AMP>>, <<1, IND1.VOLT>>, <<2, IND2.DBM>>,
              <<2, IND2.SEC>>, <<2, IND2.DUTY>>, <<2, IND2.HFE>> }
        count(bits) ==
            Cardinality({ b \in bits :
                            HasBit(IF b[1] = 1 THEN p.indicatrix1
                                   ELSE p.indicatrix2, b[2]) })
    IN  IF count(multipliers) > 1 THEN "multiplier"
        ELSE IF count(measurements) > 1 THEN "measurement"
        ELSE "ok"

\* sr_rs9lcd_packet_valid as the check that discards the frame:
\* "ok" when it returns TRUE
packet_check(p) ==
    IF ~(p.mode < MODE.INVALID) THEN "mode"
    ELSE IF ~checksum_valid(p) THEN "checksum"
    ELSE selection_good(p)

sr_rs9lcd_packet_valid(p) == packet_check(p) = "ok"

decode_digit(raw_digit) ==
    LET d == ClearBit(raw_digit, DP_MASK)
    IN  IF d = 0 \/ d = LCD["0"] THEN 0
        ELSE IF d = LCD["1"] THEN 1
        ELSE IF d = LCD["2"] THEN 2
        ELSE IF d = LCD["3"] THEN 3
        ELSE IF d = LCD["4"] THEN 4
        ELSE IF d = LCD["5"] THEN 5
        ELSE IF d = LCD["6"] THEN 6
        ELSE IF d = LCD["7"] THEN 7
        ELSE IF d = LCD["8"] THEN 8
        ELSE IF d = LCD["9"] THEN 9
        ELSE 255

\* A double is NAN or the decimal number mant * 10^exp.
NAN == [nan |-> TRUE, mant |-> 0, exp |-> 0]
Dec(mant, exp) == [nan |-> FALSE, mant |-> mant, exp |-> exp]
Scale(v, e) == IF v.nan THEN v ELSE Dec(v.mant, v.exp + e)
Negate(v) == IF v.nan THEN v ELSE Dec(0 - v.mant, v.exp)

\* the loop of lcd_to_double from digit i down to digit end, raw_digit
\* being *(&(rs_packet->digit4) + i);
\* rawval is a whole number or NAN, tenths counts the divisions of
\* multiplier by ten
RECURSIVE DigitLoop(_, _, _, _, _, _)
DigitLoop(p, i, end, rawval, dp_reached, tenths) ==
    IF i < end THEN Scale(rawval, 0 - tenths)
    ELSE LET raw_digit == IF i = 0 THEN p.digit4
                          ELSE IF i = 1 THEN p.digit3
                          ELSE IF i = 2 THEN p.digit2
                          ELSE p.digit1
             digit == decode_digit(raw_digit)
             dp == dp_reached \/ (i < 3 /\ HasBit(raw_digit, DP_MASK))
             t == IF dp THEN tenths + 1 ELSE tenths
         IN  IF digit = 255 THEN NAN
             ELSE DigitLoop(p, i - 1, end,
                            IF rawval.nan THEN rawval
                            ELSE Dec(rawval.mant * 10 + digit, 0),
                            dp, t)

\* rawval0: what the uninitialised local rawval holds at the first
\* "rawval = rawval * 10 + digit"
lcd_to_double(p, type, rawval0) ==
    LET end == IF type = READ_TEMP THEN 1 ELSE 0
        v1 == DigitLoop(p, 3, end, rawval0, FALSE, 0)
        v2 == IF HasBit(p.info, INFO.NEG) THEN Negate(v1) ELSE v1
    IN  IF HasBit(p.indicatrix1, IND2.NANO) THEN Scale(v2, 0 - 9)
        ELSE IF HasBit(p.indicatrix2, IND2.MICRO) THEN Scale(v2, 0 - 6)
        ELSE IF HasBit(p.indicatrix1, IND1.MILI) THEN Scale(v2, 0 - 3)
        ELSE IF HasBit(p.indicatrix1, IND1.KILO) THEN Scale(v2, 3)
        ELSE IF HasBit(p.indicatrix1, IND1.MEGA) THEN Scale(v2, 6)
        ELSE v2

is_celsius(p) == ClearBit(p.digit4, DP_MASK) = LCD["C"]
is_shortcirc(p) == ClearBit(p.digit2, DP_MASK) = LCD["h"]
is_logic_high(p) == ClearBit(p.digit2, DP_MASK) = LCD["H"]

\* the analog packet the caller hands to the parser
AnalogNew == [mq |-> 0, unit |-> 0, mqflags |-> {}, data |-> Dec(0, 0)]

\* the switch on rs_packet->mode
ModeSwitch(p, a, rawval, temp0) ==
    LET m == p.mode
        Set(mq, unit, flags) ==
            [a EXCEPT !.mq = mq, !.unit = unit, !.mqflags = @ \cup flags]
        Bool(b) == IF b THEN Dec(1, 0) ELSE Dec(0, 0)
        \* case MODE_TEMP, also reached by the case that falls into it
        ModeTemp(a1) ==
            [a1 EXCEPT !.mq = SR_MQ.TEMPERATURE,
                       !.data = lcd_to_double(p, READ_TEMP, temp0),
                       !.unit = IF is_celsius(p) THEN SR_UNIT.CELSIUS
                                ELSE SR_UNIT.FAHRENHEIT]
        \* case MODE_WIDTH, MODE_VOLT_WIDTH, MODE_AMP_WIDTH: no break
        ModeWidth ==
            ModeTemp([a EXCEPT !.mq = SR_MQ.PULSE_WIDTH,
                               !.unit = SR_UNIT.SECOND])
    IN
    IF m = MODE.DC_V THEN Set(SR_MQ.VOLTAGE, SR_UNIT.VOLT, {SR_MQFLAG.DC})
    ELSE IF m = MODE.AC_V
    THEN Set(SR_MQ.VOLTAGE, SR_UNIT.VOLT, {SR_MQFLAG.AC})
    ELSE IF m \in {MODE.DC_UA, MODE.DC_MA, MODE.DC_A}
    THEN Set(SR_MQ.CURRENT, SR_UNIT.AMPERE, {SR_MQFLAG.DC})
    ELSE IF m \in {MODE.AC_UA, MODE.AC_MA, MODE.AC_A}
    THEN Set(SR_MQ.CURRENT, SR_UNIT.AMPERE, {SR_MQFLAG.AC})
    ELSE IF m = MODE.OHM THEN Set(SR_MQ.RESISTANCE, SR_UNIT.OHM, {})
    ELSE IF m = MODE.FARAD THEN Set(SR_MQ.CAPACITANCE, SR_UNIT.FARAD, {})
    ELSE IF m = MODE.CONT
    THEN [Set(SR_MQ.CONTINUITY, SR_UNIT.BOOLEAN, {})
             EXCEPT !.data = Bool(is_shortcirc(p))]
    ELSE IF m = MODE.DIODE
    THEN Set(SR_MQ.VOLTAGE, SR_UNIT.VOLT, {SR_MQFLAG.DIODE, SR_MQFLAG.DC})
    ELSE IF m \in {MODE.HZ, MODE.VOLT_HZ, MODE.AMP_HZ}
    THEN Set(SR_MQ.FREQUENCY, SR_UNIT.HERTZ, {})
    ELSE IF m = MODE.LOGIC
    THEN IF ~rawval.nan
         THEN [a EXCEPT !.mq = SR_MQ.VOLTAGE, !.unit = SR_UNIT.VOLT]
         ELSE [a EXCEPT !.mq = SR_MQ.VOLTAGE, !.unit = SR_UNIT.BOOLEAN,
                        !.data = Bool(is_logic_high(p))]
    ELSE IF m = MODE.HFE THEN Set(SR_MQ.GAIN, SR_UNIT.UNITLESS, {})
    ELSE IF m \in {MODE.DUTY, MODE.VOLT_DUTY, MODE.AMP_DUTY}
    THEN Set(SR_MQ.DUTY_CYCLE, SR_UNIT.PERCENTAGE, {})
    ELSE IF m \in {MODE.WIDTH, MODE.VOLT_WIDTH, MODE.AMP_WIDTH}
    THEN ModeWidth
    ELSE IF m = MODE.TEMP THEN ModeTemp(a)
    ELSE IF m = MODE.DBM
    THEN Set(SR_MQ.POWER, SR_UNIT.DECIBEL_MW, {SR_MQFLAG.AC})
    ELSE a

\* rawval0, temp0: the uninitialised rawval of the two lcd_to_double calls
sr_rs9lcd_parse(p, analog, rawval0, temp0) ==
    LET rawval == lcd_to_double(p, READ_ALL, rawval0)
        a == ModeSwitch(p, analog, rawval, temp0)
        \* the flags set after the switch
        flags ==
            (IF HasBit(p.info, INFO.HOLD) THEN {SR_MQFLAG.HOLD} ELSE {})
            \cup (IF HasBit(p.digit4, DIG4_MAX) THEN {SR_MQFLAG.MAX}
                  ELSE {})
            \cup (IF HasBit(p.indicatrix2, IND2.MIN) THEN {SR_MQFLAG.MIN}
                  ELSE {})
            \cup (IF HasBit(p.info, INFO.AUTO) THEN {SR_MQFLAG.AUTORANGE}
                  ELSE {})
    IN  [ analog |-> [a EXCEPT !.mqflags = @ \cup flags],
          floatval |-> rawval,
          ret |-> SR_OK ]

(***************************************************************************)
(* SpecDmm: a frame arrives, the caller validates it and, if it is valid,   *)
(* has it parsed.                                                          *)
(***************************************************************************)
\* the values of the fields of the frames; digits is
\* <<digit4, digit3, digit2, digit1>>
FrameFields ==
    [ modes |-> 0..26 \cup {255},
      ind1 |-> {0, IND1.VOLT, IND1.KILO, IND1.KILO + IND1.MEGA,
                IND1.VOLT + IND1.AMP, IND1.OHM + IND1.MILI},
      ind2 |-> {0, IND2.MICRO, IND2.NANO, IND2.NANO + IND2.MICRO,
                IND2.SEC + IND2.DUTY, IND2.MIN},
      digits |->
         { <<LCD["4"], LCD["3"], LCD["2"], LCD["1"]>>,
           <<LCD["4"] + DIG4_MAX, LCD["3"], LCD["2"], LCD["1"]>>,
           <<LCD["8"] + DP_MASK, LCD["7"] + DP_MASK, LCD["6"] + DP_MASK,
             LCD["5"] + DP_MASK>>,
           <<0, LCD["0"], LCD["9"] + DP_MASK, LCD["0"]>>,
           <<LCD["C"], LCD["5"], LCD["2"], 0>>,
           <<LCD["1"], LCD["1"], LCD["h"], LCD["1"]>>,
           <<LCD["0"], LCD["0"], LCD["H"], LCD["0"]>> },
      info |-> {0, INFO.NEG, INFO.HOLD + INFO.AUTO} ]

\* the frame with the checksum the meter sends (sent) or with the plain
\* sum of its bytes
WithChecksum(p, sent) ==
    LET sum == SumBytes(RawBytes(p), RS9LCD_PACKET_SIZE - 1)
    IN  [p EXCEPT !.checksum = IF sent THEN (sum + 57) % 256 ELSE sum]

\* what an uninitialised double may hold
Garbage == {Dec(0, 0), Dec(7, 0), NAN}

InitDmm ==
    /\ devc = ols_dev_new(0, 0)
    /\ sdi = [status |-> "INACTIVE", probes |-> ScanProbes]
    /\ serial_fd = FD_CLOSED
    /\ source = << >>
    /\ feed = << >>
    /\ call = Call("init", "", 0)
    /\ ret = SR_OK
    /\ crashed = FALSE
    /\ acq = AcqInit(TRUE)
    /\ scan = ScanRest
    /\ dsl = DslRest
    /\ \E m \in FrameFields.modes, i1 \in FrameFields.ind1,
          i2 \in FrameFields.ind2, d \in FrameFields.digits,
          info \in FrameFields.info, sent \in BOOLEAN :
          dmm = [stage |-> "received",
                 frame |-> WithChecksum(
                              Packet9(m, i1, i2, d[1], d[2], d[3], d[4],
                                      info, 0), sent)]

Validate ==
    /\ dmm.stage = "received"
    /\ dmm' = [stage |-> "validated", frame |-> dmm.frame,
               check |-> packet_check(dmm.frame),
               valid |-> sr_rs9lcd_packet_valid(dmm.frame)]
    /\ UNCHANGED <<ols_vars, scan, dsl>>

Parse ==
    /\ dmm.stage = "validated"
    /\ dmm.valid
    /\ \E rawval0 \in Garbage, temp0 \in Garbage :
          dmm' = [stage |-> "parsed", frame |-> dmm.frame,
                  out |-> sr_rs9lcd_parse(dmm.frame, AnalogNew, rawval0,
                                          temp0)]
    /\ UNCHANGED <<ols_vars, scan, dsl>>

NextDmm ==
    \/ Validate
    \/ Parse

SpecDmm == InitDmm /\ [][NextDmm]_vars

(***************************************************************************)
(* dslogic_fpga_configure: the mode word, the divider and the count of     *)
(* the FPGA configuration frame.  The mode word is the set of the names of *)
(* its bits; bit 0, which dslogic_set_trigger sets to arm the trigger, is  *)
(* "TRIG_EN".                                                              *)
(***************************************************************************)
DS_MAX_LOGIC_DEPTH == SR_MHZ(16)
DS_MAX_LOGIC_SAMPLERATE == SR_MHZ(100)

\* ceil(a * 1.0 / b) for whole a >= 0 and b > 0 (exact in a double for
\* the magnitudes at hand)
CeilRatio_floor(a, b) == a \div b
CeilRatio(a, b) == (a + b - 1) \div b

\* dslogic_set_trigger on the mode word: bit 0 when a trigger is armed
dslogic_set_trigger(mode, armed) ==
    IF armed THEN mode \cup {"TRIG_EN"} ELSE mode

\* d: the device context; armed: the session has a trigger;
\* ctrl_ok, bulk_ok: the two USB transfers succeed.
\* built: whether the function came to fill in the frame.
\* count is the low 32 bits of limit_samples, which the limits of
\* DslLimits all fit in.
dslogic_fpga_configure(d, armed, ctrl_ok, bulk_ok) ==
    LET \* lines 342-347
        TestMode ==
            IF d.mode = "DS_OP_INTERNAL_TEST" THEN {"INT_TEST"}
            ELSE IF d.mode = "DS_OP_EXTERNAL_TEST" THEN {"EXT_TEST"}
            ELSE IF d.mode = "DS_OP_LOOPBACK_TEST" THEN {"LPB_TEST"}
            ELSE {}
        \* lines 349-352
        RateMode ==
            IF d.cur_samplerate = DS_MAX_LOGIC_SAMPLERATE * 2
            THEN {"HALF_MODE"}
            ELSE IF d.cur_samplerate = DS_MAX_LOGIC_SAMPLERATE * 4
            THEN {"QUAR_MODE"}
            ELSE {}
        \* lines 354-360
        ClockMode ==
            (IF d.continuous_mode THEN {"STREAM_MODE"} ELSE {})
            \cup (IF d.external_clock
                  THEN {"CLK_TYPE"}
                       \cup (IF d.clock_edge = "DS_EDGE_FALLING"
                             THEN {"CLK_EDGE"} ELSE {})
                  ELSE {})
        \* lines 361-368
        RleMode ==
            IF /\ d.limit_samples >
                     DS_MAX_LOGIC_DEPTH
                        * CeilRatio(d.cur_samplerate,
                                    DS_MAX_LOGIC_SAMPLERATE)
               /\ ~d.continuous_mode
            THEN {"RLE_MODE"} ELSE {}
    IN
    IF ~ctrl_ok
    THEN [ret |-> SR_ERR, built |-> FALSE, sent |-> FALSE, mode |-> {},
          divider |-> 0, count |-> 0]
    ELSE [ret |-> IF bulk_ok THEN SR_OK ELSE SR_ERR,
          built |-> TRUE,
          sent |-> bulk_ok,
          mode |-> dslogic_set_trigger(
                      TestMode \cup RateMode \cup ClockMode \cup RleMode,
                      armed),
          divider |-> CeilRatio(DS_MAX_LOGIC_SAMPLERATE, d.cur_samplerate),
          count |-> d.limit_samples]

(***************************************************************************)
(* SpecDsl: a DSLogic device context of DslContexts is configured.         *)
(***************************************************************************)
DslContexts ==
    [ mode : {"DS_OP_NORMAL", "DS_OP_INTERNAL_TEST", "DS_OP_EXTERNAL_TEST",
              "DS_OP_LOOPBACK_TEST"},
      cur_samplerate : {SR_KHZ(10), SR_MHZ(50), SR_MHZ(100), SR_MHZ(200),
                        SR_MHZ(400)},
      limit_samples :
         {0, 1000} \cup UNION { {k * DS_MAX_LOGIC_DEPTH,
                                 k * DS_MAX_LOGIC_DEPTH + 1} :
                                  k \in {1, 2, 4} },
      continuous_mode : BOOLEAN,
      external_clock : BOOLEAN,
      clock_edge : {"DS_EDGE_RISING", "DS_EDGE_FALLING"} ]

InitDsl ==
    /\ devc = ols_dev_new(0, 0)
    /\ sdi = [status |-> "INACTIVE", probes |-> ScanProbes]
    /\ serial_fd = FD_CLOSED
    /\ source = << >>
    /\ feed = << >>
    /\ call = Call("init", "", 0)
    /\ ret = SR_OK
    /\ crashed = FALSE
    /\ acq = AcqInit(TRUE)
    /\ scan = ScanRest
    /\ dmm = DmmRest
    /\ \E d \in DslContexts, armed \in BOOLEAN :
          dsl = [stage |-> "opened", devc |-> d, armed |-> armed]

FpgaConfigure ==
    /\ dsl.stage = "opened"
    /\ \E ctrl_ok \in BOOLEAN, bulk_ok \in BOOLEAN :
          dsl' = [stage |-> "configured", devc |-> dsl.devc,
                  armed |-> dsl.armed,
                  cfg |-> dslogic_fpga_configure(dsl.devc, dsl.armed,
                                                 ctrl_ok, bulk_ok)]
    /\ UNCHANGED <<ols_vars, scan, dmm>>

NextDsl ==
    \/ FpgaConfigure

SpecDsl == InitDsl /\ [][NextDsl]_vars

(***************************************************************************)
(* dslogic_fpga_firmware_upload.  The resource reader yields the chunks    *)
(* (their sizes, each at most FW_BUFSIZE) and then last: 0 at the end of   *)
(* the file, -1 for a read error.  xfer[i] is what libusb_bulk_transfer    *)
(* does with chunk i: "ok", "error" (a negative return) or "short" (fewer  *)
(* bytes transferred than given).  usb is the list of the USB transfers    *)
(* made, in order.                                                         *)
(***************************************************************************)
FW_BUFSIZE == 1024 * 1024

FirmwareName(model, voltage_threshold) ==
    IF model = "DSLogic"
    THEN IF voltage_threshold = "DS_VOLTAGE_RANGE_18_33_V"
         THEN "DSLOGIC_FPGA_FIRMWARE_3V3"
         ELSE "DSLOGIC_FPGA_FIRMWARE_5V"
    ELSE IF model = "DSLogic Pro" THEN "DSLOGIC_PRO_FPGA_FIRMWARE"
    ELSE IF model = "DSLogic Plus" THEN "DSLOGIC_PLUS_FPGA_FIRMWARE"
    ELSE IF model = "DSLogic Basic" THEN "DSLOGIC_BASIC_FPGA_FIRMWARE"
    ELSE IF model = "DSCope" THEN "DSCOPE_FPGA_FIRMWARE"
    ELSE ""

\* only a negative return of libusb_bulk_transfer ends the loop
TransferFailed_error(outcome, transferred, chunksize) ==
    outcome = "error"

\* the two tests that leave the loop after a bulk transfer
TransferFailed(outcome, transferred, chunksize) ==
    outcome = "error" \/ transferred # chunksize

\* the while (1) loop from chunk i on: [result, usb]
RECURSIVE UploadLoop(_, _, _, _, _)
UploadLoop(i, chunks, last, xfer, usb) ==
    IF i > Len(chunks)
    THEN [result |-> IF last < 0 THEN SR_ERR ELSE SR_OK, usb |-> usb]
    ELSE LET chunksize == chunks[i]
             transferred == IF xfer[i] = "ok" THEN chunksize
                            ELSE IF xfer[i] = "short" THEN chunksize - 1
                            ELSE 0
             bulk == [op |-> "bulk", chunk |-> i, length |-> chunksize,
                      transferred |-> transferred]
         IN  IF TransferFailed(xfer[i], transferred, chunksize)
             THEN [result |-> SR_ERR, usb |-> Append(usb, bulk)]
             ELSE UploadLoop(i + 1, chunks, last, xfer, Append(usb, bulk))

\* open_ok: sr_resource_open succeeds; config_ok: the DS_CMD_CONFIG control
\* transfer succeeds
dslogic_fpga_firmware_upload(d, open_ok, config_ok, chunks, last, xfer) ==
    LET name == FirmwareName(d.model, d.voltage_threshold)
        config == [op |-> "control", chunk |-> 0, length |-> 3,
                   transferred |-> IF config_ok THEN 3 ELSE 0]
        loop == UploadLoop(1, chunks, last, xfer, << config >>)
    IN  IF name = "" \/ ~open_ok
        THEN [ret |-> SR_ERR, name |-> name, usb |-> << >>]
        ELSE IF ~config_ok
        THEN [ret |-> SR_ERR, name |-> name, usb |-> << config >>]
        ELSE [ret |-> loop.result, name |-> name, usb |-> loop.usb]

(***************************************************************************)
(* to_bytes_per_ms, get_buffer_size and dslogic_get_number_of_transfers.   *)
(* ub is the outcome of the division by a buffer size of 0: the process    *)
(* is killed ("trap") or the division yields 0 ("zero").                   *)
(***************************************************************************)
NUM_SIMUL_TRANSFERS == 32

to_bytes_per_ms(d) ==
    IF d.cur_samplerate > SR_MHZ(100) THEN (SR_MHZ(100) \div 1000) * 2
    ELSE (d.cur_samplerate \div 1000) * 2

get_buffer_size(d) ==
    LET s == 10 * to_bytes_per_ms(d)
    IN  ((s + 511) \div 512) * 512

dslogic_get_number_of_transfers(d, ub) ==
    LET size == get_buffer_size(d)
        n == IF size = 0 THEN 0 ELSE (100 * to_bytes_per_ms(d)) \div size
    IN  [ n |-> IF n > NUM_SIMUL_TRANSFERS THEN NUM_SIMUL_TRANSFERS ELSE n,
          size |-> size,
          trap |-> size = 0 /\ ub = "trap" ]

(***************************************************************************)
(* SpecUsb: a DSLogic device is attached; the driver uploads the FPGA      *)
(* bitstream and sizes the transfers of an acquisition.                    *)
(***************************************************************************)
MaxChunks == 2

UsbDevices ==
    [ model : {"DSLogic", "DSLogic Pro", "DSLogic Plus", "DSLogic Basic",
               "DSCope", "Saleae Logic"},
      voltage_threshold : {"DS_VOLTAGE_RANGE_18_33_V",
                           "DS_VOLTAGE_RANGE_5_V"},
      cur_samplerate : {500, 1000, 2560, SR_KHZ(10), SR_MHZ(100),
                        SR_MHZ(400)} ]

ChunkSizes == {512, FW_BUFSIZE}

InitUsb ==
    /\ devc = ols_dev_new(0, 0)
    /\ sdi = [status |-> "INACTIVE", probes |-> ScanProbes]
    /\ serial_fd = FD_CLOSED
    /\ source = << >>
    /\ feed = << >>
    /\ call = Call("init", "", 0)
    /\ ret = SR_OK
    /\ crashed = FALSE
    /\ acq = AcqInit(TRUE)
    /\ scan = ScanRest
    /\ dmm = DmmRest
    /\ \E d \in UsbDevices : dsl = [stage |-> "attached", devc |-> d]

FirmwareUpload ==
    /\ dsl.stage = "attached"
    /\ \E open_ok \in BOOLEAN, config_ok \in BOOLEAN, n \in 0..MaxChunks,
          last \in {0, -1} :
          \E chunks \in [1..n -> ChunkSizes],
             xfer \in [1..n -> {"ok", "error", "short"}] :
             dsl' = [stage |-> "uploaded", devc |-> dsl.devc,
                     open_ok |-> open_ok, config_ok |-> config_ok,
                     chunks |-> chunks, last |-> last, xfer |-> xfer,
                     out |-> dslogic_fpga_firmware_upload(
                                dsl.devc, open_ok, config_ok, chunks,
                                last, xfer)]
    /\ UNCHANGED <<ols_vars, scan, dmm>>

NumberOfTransfers ==
    /\ dsl.stage = "attached"
    /\ ~crashed
    /\ \E ub \in {"trap", "zero"} :
          LET r == dslogic_get_number_of_transfers(dsl.devc, ub)
          IN  /\ dsl' = [stage |-> "sized", devc |-> dsl.devc,
                         n |-> r.n, size |-> r.size]
              /\ crashed' = r.trap
    /\ UNCHANGED <<sdi, devc, serial_fd, source, feed, call, ret, acq,
                   scan, dmm>>

NextUsb ==
    \/ FirmwareUpload
    \/ NumberOfTransfers

SpecUsb == InitUsb /\ [][NextUsb]_vars

(***************************************************************************)
(* Properties.  Vocabulary shared by the statements below.                 *)
(***************************************************************************)
PacketTypes(pkts) == [i \in 1..Len(pkts) |-> pkts[i].type]

CountOf(pkts, type) ==
    Cardinality({i \in 1..Len(pkts) : pkts[i].type = type})

RECURSIVE LogicBytes(_)
LogicBytes(pkts) ==
    IF pkts = << >> THEN 0
    ELSE (IF Head(pkts).type = "LOGIC" THEN Head(pkts).length ELSE 0)
         + LogicBytes(Tail(pkts))

\* the channel groups that have an enabled probe
EnabledGroups == {g \in Groups : \E p \in sdi.probes.enabled : p \div 8 = g}

\* probes are enabled and none of them carries a trigger expression
NoTriggerExpr ==
    /\ sdi.probes.enabled # {}
    /\ \A p \in sdi.probes.enabled : ProbeTrigger(sdi.probes, p) = << >>

RleOff == FLAG_RLE \notin devc.flag_reg

\* the data of the Logic packets, one after the other
RECURSIVE LogicData(_)
LogicData(pkts) ==
    IF pkts = << >> THEN << >>
    ELSE (IF Head(pkts).type = "LOGIC" THEN Head(pkts).data ELSE << >>)
         \o LogicData(Tail(pkts))

\* no trigger position, or one among the samples received
TriggerInRange ==
    \/ devc.trigger_at = -1
    \/ devc.trigger_at \in 1..devc.num_samples

\* the complete samples the device has delivered to the acquisition, capped
\* at limit_samples
SamplesReceived ==
    LET n == NumChannels(devc.flag_reg)
    IN  IF n = 0 THEN 0 ELSE Min(Len(acq.rx) \div n, devc.limit_samples)

\* the payload the statement of C7 describes: sample k first, sample 1 last,
\* four bytes each, byte g of a sample being 0 for a disabled group g and
\* else the byte received for that group
ReversedExpanded ==
    LET n == NumChannels(devc.flag_reg)
        k == SamplesReceived
        rank(g) == Cardinality({h \in Groups :
                        h < g /\ ChannelGroupFlag(h) \notin devc.flag_reg})
    IN  [pos \in 1..(4 * k) |->
            LET j == (pos - 1) \div 4
                g == (pos - 1) % 4
            IN  IF ChannelGroupFlag(g) \in devc.flag_reg THEN 0
                ELSE acq.rx[(k - 1 - j) * n + rank(g) + 1]]

(***************************************************************************)
(* C1: Once an acquisition has started successfully its packets are Header *)
(* and MetaLogic, in that order and sent by the start call; when it then   *)
(* completes on the timeout event the stream is Header, MetaLogic, then    *)
(* only Logic packets and at most one Trigger packet, then exactly one End *)
(* packet, which is last: the source is gone, so nothing follows it.       *)
(***************************************************************************)
C1_PacketOrder ==
    /\ acq.phase = "running" =>
          PacketTypes(feed) = <<"HEADER", "META_LOGIC">>
    /\ acq.phase = "completed" =>
          /\ Len(feed) >= 3
          /\ feed[1].type = "HEADER"
          /\ feed[2].type = "META_LOGIC"
          /\ \A i \in 3..(Len(feed) - 1) :
                feed[i].type \in {"LOGIC", "TRIGGER"}
          /\ CountOf(feed, "TRIGGER") <= 1
          /\ feed[Len(feed)].type = "END"
          /\ CountOf(feed, "END") = 1
          /\ source = << >>

C1_Witness ==
    /\ acq.phase = "completed"
    /\ PacketTypes(feed) =
          <<"HEADER", "META_LOGIC", "LOGIC", "TRIGGER", "LOGIC", "END">>

(***************************************************************************)
(* C2: A stop call made when the acquisition has already ended, by an      *)
(* earlier stop or by its completion, does nothing: it sends no packet and *)
(* changes no state, so an acquisition has at most one End packet.         *)
(***************************************************************************)
C2_StopIdempotent ==
    [][ (call'.op = "acquisition_stop"
         /\ acq.phase \in {"stopped", "completed"})
        => /\ feed' = feed
           /\ source' = source
           /\ devc' = devc
           /\ sdi' = sdi
           /\ CountOf(feed', "END") <= 1 ]_vars

(***************************************************************************)
(* C3: A stop call during a running acquisition that has received samples  *)
(* sends them as Logic packets, then the End packet, and removes the       *)
(* source.                                                                 *)
(***************************************************************************)
C3_StopFlushes ==
    [][ (call'.op = "acquisition_stop"
         /\ acq.phase = "running"
         /\ devc.num_samples > 0)
        => /\ Len(feed') > Len(feed) + 1
           /\ SubSeq(feed', 1, Len(feed)) = feed
           /\ \A i \in (Len(feed) + 1)..(Len(feed') - 1) :
                 feed'[i].type = "LOGIC"
           /\ feed'[Len(feed')].type = "END"
           /\ source' = << >> ]_vars

(***************************************************************************)
(* C4: After a successful start with no trigger expression on any enabled  *)
(* probe trigger_at is -1, and the acquisition completes without a Trigger *)
(* packet, whatever the acquisitions before it were.                       *)
(***************************************************************************)
C4_NoTriggerReset ==
    /\ (NoTriggerExpr /\ call.op = "acquisition_start" /\ ret = SR_OK
        /\ ~crashed)
          => devc.trigger_at = -1
    /\ (NoTriggerExpr /\ call.op = "receive_data"
        /\ acq.phase = "completed")
          => CountOf(feed, "TRIGGER") = 0

(***************************************************************************)
(* C5: A completed acquisition that sends a Trigger packet sends the       *)
(* pre-trigger slice of the buffer (trigger_at * 4 bytes from the start of *)
(* the filled part), the Trigger packet, and the adjacent post-trigger     *)
(* slice ((num_samples - trigger_at) * 4 bytes), num_samples * 4 bytes in  *)
(* all.                                                                    *)
(***************************************************************************)
C5_TriggerSlices ==
    (acq.phase = "completed" /\ CountOf(feed, "TRIGGER") = 1) =>
        LET t == devc.trigger_at
            n == devc.num_samples
            base == (devc.limit_samples - n) * 4
        IN  /\ PacketTypes(feed) = <<"HEADER", "META_LOGIC", "LOGIC",
                                     "TRIGGER", "LOGIC", "END">>
            /\ feed[3].offset = base
            /\ feed[3].length = t * 4
            /\ feed[5].offset = base + t * 4
            /\ feed[5].length = (n - t) * 4
            /\ LogicBytes(feed) = n * 4

C8_GroupProbes ==
    (call.op = "acquisition_start" /\ ret = SR_OK /\ ~crashed)
        => /\ feed[2].type = "META_LOGIC"
           /\ feed[2].num_probes = 8 * Cardinality(EnabledGroups)
           /\ feed[2].samplerate = hw_info_get_cur_samplerate(devc)

(***************************************************************************)
(* C8, amended: the MetaLogic packet of a successful start reports         *)
(* NUM_PROBES (32) probes, whichever channel groups are enabled, and the   *)
(* current effective samplerate.                                           *)
(***************************************************************************)
C8_AllProbes ==
    (call.op = "acquisition_start" /\ ret = SR_OK /\ ~crashed)
        => /\ feed[2].type = "META_LOGIC"
           /\ feed[2].num_probes = NUM_PROBES
           /\ feed[2].samplerate = hw_info_get_cur_samplerate(devc)

C8_Witness ==
    /\ call.op = "acquisition_start"
    /\ ret = SR_OK
    /\ Cardinality(EnabledGroups) = 2
    /\ feed[2].num_probes = 32
    /\ feed[2].samplerate = 33333333

(***************************************************************************)
(* C9: config_set returns an error and leaves the device context as it was *)
(* when the capability is none of the four it knows (SR_ERR), when the     *)
(* samplerate is outside the supported range, the default range or up to   *)
(* the maximum of the metadata (SR_ERR_SAMPLERATE), and when limit_samples *)
(* is below MIN_NUM_SAMPLES (SR_ERR); on an instance that is not active    *)
(* the error is SR_ERR in every case.                                      *)
(***************************************************************************)
KnownCaps == {"SAMPLERATE", "LIMIT_SAMPLES", "CAPTURE_RATIO", "RLE"}

InSupportedRange(d, rate) ==
    IF d.max_samplerate # 0
    THEN rate <= d.max_samplerate
    ELSE rate >= samplerates.low /\ rate <= samplerates.high

RejectCode(active, code) == IF active THEN code ELSE SR_ERR

C10_DividerBelowClock ==
    (/\ call.op = "config_set"
     /\ call.cap = "SAMPLERATE"
     /\ ret = SR_OK
     /\ ~crashed
     /\ call.value >= 1
     /\ call.value <= CLOCK_RATE)
        => /\ FLAG_DEMUX \notin devc.flag_reg
           /\ devc.cur_samplerate_divider = (CLOCK_RATE \div call.value) - 1
           /\ hw_info_get_cur_samplerate(devc) =
                 CLOCK_RATE \div (CLOCK_RATE \div call.value)

C10_Witness ==
    /\ call = Call("config_set", "SAMPLERATE", 30000000)
    /\ ret = SR_OK
    /\ devc.cur_samplerate_divider = 2
    /\ hw_info_get_cur_samplerate(devc) = 33333333
    /\ FLAG_DEMUX \notin devc.flag_reg

(***************************************************************************)
(* C11: After any sequence of config_set(samplerate) calls, on a device    *)
(* with or without a maximum samplerate from the metadata, the current     *)
(* samplerate is strictly positive and no division by zero has happened;   *)
(* a requested rate of 0 or above 2 * CLOCK_RATE is rejected with          *)
(* SR_ERR_SAMPLERATE.                                                      *)
(***************************************************************************)
C11_PositiveSamplerate ==
    /\ ~crashed
    /\ devc.cur_samplerate > 0
    /\ (/\ call.op = "config_set"
        /\ call.cap = "SAMPLERATE"
        /\ sdi.status = "ACTIVE"
        /\ (call.value = 0 \/ call.value > 2 * CLOCK_RATE))
          => ret = SR_ERR_SAMPLERATE

(***************************************************************************)
(* C12: The status of the instance goes from inactive to active on a       *)
(* successful dev_open and stays as it is when the open fails, from active *)
(* to stopping on acquisition_stop, and from stopping to inactive when the *)
(* End packet has been sent.                                               *)
(***************************************************************************)
C12_StatusLifecycle ==
    [][ /\ call'.op = "dev_open" =>
              sdi'.status = IF ret' = SR_OK THEN "ACTIVE" ELSE sdi.status
        /\ (call'.op = "acquisition_stop" /\ sdi.status = "ACTIVE") =>
              sdi'.status \in {"STOPPING", "INACTIVE"}
        /\ (/\ sdi.status = "STOPPING"
            /\ CountOf(feed', "END") > CountOf(feed, "END")) =>
              sdi'.status = "INACTIVE" ]_vars

(***************************************************************************)
(* C13: When serial_read fails in receive_data during an acquisition, an   *)
(* End packet is sent before the callback returns FALSE and the session    *)
(* removes the source.                                                     *)
(***************************************************************************)
\* the step is a byte event of a running acquisition whose serial_read fails
\* (the model passes byte 0 with a failing read); with limit_samples = 0 the
\* first call returns before it reads
ReadFails ==
    /\ acq.phase = "running"
    /\ call'.op = "receive_data"
    /\ call'.cap = "IN"
    /\ call'.value = 0
    /\ acq'.faults > acq.faults
    /\ ~(devc.num_transfers = 0 /\ devc.limit_samples = 0)

C13_EndOnReadError ==
    [][ ReadFails =>
          /\ ret' = 0
          /\ source' = << >>
          /\ Len(feed') = Len(feed) + 1
          /\ feed'[Len(feed')].type = "END" ]_vars

(***************************************************************************)
(* C14: hw_scan writes Reset five times, then Id, and sends Metadata only  *)
(* after it has read a 4-byte answer to Id that is "1SLO" or "1ALS"; with  *)
(* any other answer, a short answer or none, it returns the empty list     *)
(* and drvc->instances stays as it was.                                    *)
(***************************************************************************)
DiscoveryCommands ==
    <<CMD_RESET, CMD_RESET, CMD_RESET, CMD_RESET, CMD_RESET, CMD_ID,
      CMD_METADATA>>

IdAnswered(sc) ==
    sc.nread = 4 /\ sc.buf \in { <<"1", "S", "L", "O">>,
                                 <<"1", "A", "L", "S">> }

BitSet(byte, mask) == byte % (2 * mask) >= mask
Ones(byte, masks) == Cardinality({m \in masks : BitSet(byte, m)})

FrameModeOk(f) == f.mode < 26
FrameSumOk(f) ==
    (f.mode + f.indicatrix1 + f.indicatrix2 + f.digit4 + f.digit3
       + f.digit2 + f.digit1 + f.info + 57) % 256 = f.checksum
FrameMultiplierOk(f) ==
    Ones(f.indicatrix1, {32, 16, 1}) + Ones(f.indicatrix2, {128, 64}) <= 1
FrameQuantityOk(f) ==
    Ones(f.indicatrix1, {128, 64, 8, 4, 2})
       + Ones(f.indicatrix2, {32, 16, 8, 4}) <= 1

C15_PacketValid ==
    dmm.stage = "validated" =>
       LET f == dmm.frame
       IN  /\ dmm.valid <=> /\ FrameModeOk(f) /\ FrameSumOk(f)
                            /\ FrameMultiplierOk(f) /\ FrameQuantityOk(f)
           /\ dmm.check =
                 IF ~FrameModeOk(f) THEN "mode"
                 ELSE IF ~FrameSumOk(f) THEN "checksum"
                 ELSE IF ~FrameMultiplierOk(f) THEN "multiplier"
                 ELSE IF ~FrameQuantityOk(f) THEN "measurement"
                 ELSE "ok"

\* an accepted frame with one multiplier and one quantity whose byte sum
\* wraps around
C15_Witness ==
    /\ dmm.stage = "validated"
    /\ dmm.valid
    /\ dmm.frame.indicatrix1 = 65
    /\ dmm.frame.indicatrix2 = 0
    /\ dmm.frame.checksum < 57

(***************************************************************************)
(* C16: for the pulse-width modes (MODE_WIDTH, MODE_VOLT_WIDTH,            *)
(* MODE_AMP_WIDTH) sr_rs9lcd_parse reports mq = PULSE_WIDTH and            *)
(* unit = SECOND and does nothing of what it does for a temperature: the   *)
(* caller's data value is left alone.                                      *)
(***************************************************************************)
C16_PulseWidth ==
    (dmm.stage = "parsed" /\ dmm.frame.mode \in {16, 17, 18}) =>
       /\ dmm.out.analog.mq = 10008
       /\ dmm.out.analog.unit = 10010
       /\ dmm.out.analog.data = [nan |-> FALSE, mant |-> 0, exp |-> 0]

(***************************************************************************)
(* C17: a frame whose digit1..digit4 are entries of the 7-segment table    *)
(* (0xd7=0, 0x50=1, 0xb5=2, 0xf1=3, 0x72=4, 0xe3=5, 0xe7=6, 0x51=7,        *)
(* 0xf7=8, 0xf3=9), with no decimal point, no multiplier and no sign,      *)
(* parses to the whole number digit1 digit2 digit3 digit4, digit1 being    *)
(* the most significant.                                                   *)
(***************************************************************************)
SegmentTable ==
    [b \in {215, 80, 181, 241, 114, 227, 231, 81, 247, 243} |->
       CASE b = 215 -> 0 [] b = 80 -> 1 [] b = 181 -> 2 [] b = 241 -> 3
         [] b = 114 -> 4 [] b = 227 -> 5 [] b = 231 -> 6 [] b = 81 -> 7
         [] b = 247 -> 8 [] b = 243 -> 9]

PlainDigits(f) ==
    /\ \A d \in {f.digit1, f.digit2, f.digit3, f.digit4} :
          d \in DOMAIN SegmentTable
    /\ Ones(f.indicatrix1, {32, 16, 1}) + Ones(f.indicatrix2, {128, 64}) = 0
    /\ ~BitSet(f.info, 8)

C17_PlainDigits ==
    (dmm.stage = "parsed" /\ PlainDigits(dmm.frame)) =>
       dmm.out.floatval =
          [nan |-> FALSE,
           mant |-> SegmentTable[dmm.frame.digit1] * 1000
                    + SegmentTable[dmm.frame.digit2] * 100
                    + SegmentTable[dmm.frame.digit3] * 10
                    + SegmentTable[dmm.frame.digit4],
           exp |-> 0]

(***************************************************************************)
(* C18: dslogic_fpga_configure sets RLE_MODE in the mode word exactly when *)
(* continuous mode is off and limit_samples > DS_MAX_LOGIC_DEPTH *         *)
(* ceil(samplerate / DS_MAX_LOGIC_SAMPLERATE): it is set for               *)
(* limit_samples = DS_MAX_LOGIC_DEPTH + 1 at DS_MAX_LOGIC_SAMPLERATE and   *)
(* never in continuous mode.                                               *)
(***************************************************************************)
\* the least whole k with k * 100 MHz >= rate
RateSteps(rate) ==
    CHOOSE k \in 0..8 :
       /\ k * 100000000 >= rate
       /\ \A j \in 0..8 : j * 100000000 >= rate => k <= j

C18_RleMode ==
    (dsl.stage = "configured" /\ dsl.cfg.built) =>
       LET d == dsl.devc
           rle == "RLE_MODE" \in dsl.cfg.mode
       IN  /\ rle <=> /\ ~d.continuous_mode
                      /\ d.limit_samples >
                            16000000 * RateSteps(d.cur_samplerate)
           /\ (/\ d.limit_samples = 16000001
               /\ d.cur_samplerate = 100000000
               /\ ~d.continuous_mode) => rle
           /\ d.continuous_mode => ~rle

\* the threshold case: one sample more than the depth at the full rate
C18_Witness ==
    /\ dsl.stage = "configured"
    /\ dsl.cfg.built
    /\ dsl.devc.limit_samples = 16000001
    /\ dsl.devc.cur_samplerate = 100000000
    /\ ~dsl.devc.continuous_mode
    /\ "RLE_MODE" \in dsl.cfg.mode

(***************************************************************************)
(* C19: for every byte received during an acquisition, with RLE on or      *)
(* off: num_samples never exceeds limit_samples; every write into the      *)
(* sample buffer lies within [0, limit_samples * 4); the stored samples    *)
(* occupy exactly the tail [(limit_samples - num_samples) * 4,             *)
(* limit_samples * 4) of the buffer; a run that would exceed the           *)
(* remaining capacity is cut so that exactly limit_samples samples are     *)
(* stored; and a byte that arrives once num_samples >= limit_samples       *)
(* changes nothing.                                                        *)
(***************************************************************************)
ByteReceived ==
    /\ acq.phase = "running"
    /\ call'.op = "receive_data" /\ call'.cap = "IN"
    /\ ret' = 1

\* the offset in the buffer at which the stored samples of d begin
TailStart(d) == (d.limit_samples - d.num_samples) * 4

\* the buffer as the byte found it: freshly filled if this is the first
\* event of the acquisition
BufferBefore ==
    IF devc.raw_sample_buf.state = "alloc"
    THEN devc.raw_sample_buf.bytes
    ELSE [k \in 1..(devc.limit_samples * 4) |-> 130]

C19_BufferTail ==
    [][ ByteReceived =>
          LET lim == devc.limit_samples
              now == devc'.raw_sample_buf
              full == devc.num_samples + devc.rle_count + 1
          IN  /\ ~crashed'
              /\ now.state = "alloc" /\ Len(now.bytes) = lim * 4
              /\ devc'.num_samples <= lim
              /\ devc'.num_samples \in {devc.num_samples, Min(full, lim)}
              /\ \A k \in 1..(lim * 4) :
                    /\ k <= TailStart(devc') => now.bytes[k] = 130
                    /\ k > TailStart(devc) => now.bytes[k] = BufferBefore[k]
                    /\ (k > TailStart(devc') /\ k + 4 <= TailStart(devc))
                          => now.bytes[k] = now.bytes[k + 4]
                    /\ (k > TailStart(devc') /\ k <= TailStart(devc))
                          => now.bytes[k] # 130
              /\ devc.num_samples >= lim =>
                    /\ now.bytes = BufferBefore
                    /\ devc'.num_samples = devc.num_samples
                    /\ devc'.num_bytes = devc.num_bytes
                    /\ devc'.rle_count = devc.rle_count
                    /\ devc'.sample = devc.sample ]_vars

(***************************************************************************)
(* C20: with RLE on, a complete sample whose most significant received     *)
(* byte has its high bit set is taken as a count c (the bit stripped) and  *)
(* stores nothing; the next complete sample is stored c + 1 times (as many *)
(* of them as the buffer has room for), a sample that no count precedes    *)
(* once; and the count is cleared after each stored sample.                *)
(***************************************************************************)
\* the byte at hand completes a sample of a device with RLE
CompletesRleSample ==
    /\ ByteReceived
    /\ FLAG_RLE \in devc.flag_reg
    /\ devc.num_samples < devc.limit_samples
    /\ devc.num_bytes + 1 = NumChannels(devc.flag_reg)

\* the value of the bytes rx, least significant first, bit 7 of the last
\* one stripped
CountValue(rx) ==
    LET weight(i) == CASE i = 1 -> 1 [] i = 2 -> 256 [] i = 3 -> 65536
                       [] i = 4 -> 16777216
        byte(i) == IF i = Len(rx) THEN rx[i] % 128 ELSE rx[i]
        sum[i \in 0..Len(rx)] ==
            IF i = 0 THEN 0 ELSE sum[i - 1] + weight(i) * byte(i)
    IN  sum[Len(rx)]

\* byte g of the stored sample: 0 for a disabled group, else the byte
\* received for the group
StoredByte(rx, g) ==
    IF ChannelGroupFlag(g) \in devc.flag_reg THEN 0
    ELSE rx[Cardinality({h \in Groups :
                 h < g /\ ChannelGroupFlag(h) \notin devc.flag_reg}) + 1]

C20_RleRuns ==
    [][ CompletesRleSample =>
          LET rx == Append(SubSeq(devc.sample, 1, devc.num_bytes),
                           call'.value)
              room == devc.limit_samples - devc.num_samples
              copies == Min(devc.rle_count + 1, room)
              now == devc'.raw_sample_buf
          IN  IF rx[Len(rx)] >= 128
              THEN /\ devc'.rle_count = CountValue(rx)
                   /\ devc'.num_samples = devc.num_samples
                   /\ now.bytes = BufferBefore
              ELSE /\ ~crashed'
                   /\ devc'.num_samples = devc.num_samples + copies
                   /\ devc'.rle_count = 0
                   /\ now.state = "alloc"
                   /\ \A j \in 0..(copies - 1), g \in Groups :
                         now.bytes[TailStart(devc') + 4 * j + g + 1]
                            = StoredByte(rx, g) ]_vars

(***************************************************************************)
(* C21: every samplerate r > CLOCK_RATE that set_samplerate accepts (its   *)
(* range test lets it through) sets FLAG_DEMUX, makes the divider          *)
(* ceil(2 * CLOCK_RATE / r) - 1 and the reported rate                      *)
(* 2 * CLOCK_RATE / (divider + 1), without a crash.                        *)
(***************************************************************************)
C21_DemuxDivider ==
    (/\ call.op = "config_set"
     /\ call.cap = "SAMPLERATE"
     /\ sdi.status = "ACTIVE"
     /\ call.value > CLOCK_RATE
     /\ ret # SR_ERR_SAMPLERATE)
        => /\ ~crashed
           /\ ret = SR_OK
           /\ FLAG_DEMUX \in devc.flag_reg
           /\ devc.cur_samplerate_divider =
                 ((2 * CLOCK_RATE + call.value - 1) \div call.value) - 1
           /\ hw_info_get_cur_samplerate(devc) =
                 (2 * CLOCK_RATE) \div (devc.cur_samplerate_divider + 1)

(***************************************************************************)
(* C22: configure_probes, run by acquisition_start on an active instance   *)
(* whose trigger expressions have 1 to 4 characters, accepts them: for     *)
(* each enabled probe and each position s of its expression the probe's    *)
(* bit is in trigger_mask[s] and, exactly when the character is '1', in    *)
(* trigger_value[s]; num_stages is the longest expression length among     *)
(* the enabled probes; a disabled probe is in neither probe_mask nor any   *)
(* trigger mask.                                                           *)
(***************************************************************************)
\* the expression of probe p as configure_probes sees it: none for a
\* disabled probe
EnabledTrigger(p) ==
    IF p \in sdi.probes.enabled THEN ProbeTrigger(sdi.probes, p) ELSE << >>

\* the longest expression among the enabled probes
LongestTrigger ==
    CHOOSE n \in 0..NUM_TRIGGER_STAGES :
       /\ \A p \in ProbeIdx : Len(EnabledTrigger(p)) <= n
       /\ n > 0 => \E p \in ProbeIdx : Len(EnabledTrigger(p)) = n

C22_TriggerStages ==
    (/\ call.op = "acquisition_start"
     /\ sdi.status = "ACTIVE"
     /\ ~crashed)
        => /\ ret # SR_OK => serial_fd = FD_CLOSED
           /\ devc.probe_mask = sdi.probes.enabled
           /\ \A s \in Stages :
                 /\ devc.trigger_mask[s] =
                       {p \in ProbeIdx : Len(EnabledTrigger(p)) > s}
                 /\ devc.trigger_value[s] =
                       {p \in ProbeIdx : /\ Len(EnabledTrigger(p)) > s
                                         /\ EnabledTrigger(p)[s + 1] = "1"}
           /\ devc.num_stages = LongestTrigger

(***************************************************************************)
(* C23: at every acquisition_start that gets as far as programming the     *)
(* device, the index num_stages - 1 to which the final-stage marker 0x08   *)
(* is OR-ed lies within 0..3, also when no probe has a trigger expression, *)
(* and of the trigger configuration words sent only the one of the last    *)
(* used stage (stage 0 when there is no expression) carries the marker.    *)
(***************************************************************************)
\* the start call at hand came to program the device
Programmed ==
    /\ call.op = "acquisition_start"
    /\ ~crashed
    /\ acq.prog.config # << >>

C23_MarkerIndex ==
    Programmed =>
       LET last == IF devc.num_stages = 0 THEN 0 ELSE devc.num_stages - 1
       IN  /\ acq.prog.marker = devc.num_stages - 1
           /\ acq.prog.marker \in 0..3
           /\ \A s \in 1..Len(acq.prog.config) :
                 (acq.prog.config[s] \div 8) % 2 = 1 <=> s - 1 = last

(***************************************************************************)
(* C24: after every acquisition_start that programmed the flag register,   *)
(* the first on the instance or a later one with other probes enabled,     *)
(* the disable bit of channel group g is set exactly when no enabled probe *)
(* lies in g, so the number of bytes receive_data takes for one sample is  *)
(* the number of channel groups that have an enabled probe.                *)
(***************************************************************************)
C24_GroupFlags ==
    (/\ call.op = "acquisition_start"
     /\ ret = SR_OK
     /\ ~crashed)
        => /\ \A g \in Groups :
                 ChannelGroupFlag(g) \in devc.flag_reg
                    <=> g \notin EnabledGroups
           /\ NumChannels(devc.flag_reg) = Cardinality(EnabledGroups)

(***************************************************************************)
(* C25: in every acquisition, the first and every later one on the         *)
(* instance, a successful start registers the receive source with an       *)
(* infinite timeout (-1), and the first byte of that acquisition           *)
(* re-registers it with a timeout of 30 ms, so that the timeout event can  *)
(* end the acquisition once the device stops sending.                      *)
(***************************************************************************)
\* the step is the first byte event after a successful start
FirstByte ==
    /\ acq.phase = "running"
    /\ call.op = "acquisition_start"
    /\ call'.op = "receive_data"
    /\ call'.cap = "IN"
    /\ ret' = 1
    /\ ~crashed'

C25_SourceTimeouts ==
    [][ /\ (call'.op = "acquisition_start" /\ ret' = SR_OK /\ ~crashed')
              => source' = << [fd |-> serial_fd, timeout |-> -1] >>
        /\ FirstByte
              => source' = << [fd |-> serial_fd, timeout |-> 30] >> ]_vars

(***************************************************************************)
(* C26: get_metadata decodes the entries of the frame up to the first 0x00 *)
(* key and nothing behind it: every key byte of the frame, also one that   *)
(* follows an entry of an unknown (type, token) pair or a key of an        *)
(* unknown type, is taken as a key; the model name is made of the type-0   *)
(* token-1 strings; sample memory, maximum samplerate and protocol         *)
(* version are the value of the last entry that carries them, 0 when none  *)
(* does, a type-1 value read as a big-endian 32-bit number (key 0x21 with  *)
(* 00 00 00 20 gives 32); no other entry changes them.                     *)
(***************************************************************************)
\* hw_scan has read a metadata frame and returned its instance
MetadataParsed ==
    /\ scan.calls > 0
    /\ scan.meta # << >>
    /\ scan.devices # << >>

\* the number the value bytes v spell, most significant byte first
BigEndian(v) ==
    LET sum[i \in 0..Len(v)] ==
            IF i = 0 THEN 0 ELSE sum[i - 1] * 256 + v[i]
    IN  sum[Len(v)]

\* the entries of frame f whose key is in ks, in the order of the frame
EntriesOf(f, ks) ==
    LET pick[i \in 0..Len(f.entries)] ==
            IF i = 0 THEN << >>
            ELSE IF f.entries[i].key \in ks
            THEN Append(pick[i - 1], f.entries[i])
            ELSE pick[i - 1]
    IN  pick[Len(f.entries)]

\* the number the last entry with a key of ks carries, 0 if there is none
LastValue(f, ks) ==
    LET es == EntriesOf(f, ks)
    IN  IF es = << >> THEN 0 ELSE BigEndian(es[Len(es)].value)

\* the strings of the entries es, one after the other
RECURSIVE Joined(_)
Joined(es) ==
    IF es = << >> THEN << >> ELSE Head(es).value \o Joined(Tail(es))

C26_MetadataKeys ==
    MetadataParsed =>
       LET f == scan.meta[1]
           d == scan.devices[1]
       IN  /\ d.keys = [i \in 1..Len(f.entries) |-> f.entries[i].key]
           /\ d.model = Joined(EntriesOf(f, {1}))
           /\ d.devc.max_samples = LastValue(f, {33})
           /\ d.devc.max_samplerate = LastValue(f, {35})
           /\ d.protocol_version = LastValue(f, {36, 65})

\* the frame 60 21 00 00 00 20 00 21 00 00 00 01: a key of an unknown type,
\* then sample memory 32, the terminator and bytes that are not read
C26_Witness ==
    /\ MetadataParsed
    /\ Stream(scan.meta[1]) = <<96, 33, 0, 0, 0, 32, 0, 33, 0, 0, 0, 1>>
    /\ scan.devices[1].keys = <<96, 33>>
    /\ scan.devices[1].devc.max_samples = 32

(***************************************************************************)
(* C27: when the metadata frame reports a probe count N, the instance      *)
(* get_metadata returns has exactly the probes 0..N-1, each index once,    *)
(* each named by its decimal index, for every N the fields can carry and   *)
(* also when the frame has more than one probe-count key; no name is read  *)
(* from beyond the 32 names of probe_names.                                *)
(***************************************************************************)
\* the decimal numeral of i, for i below 100
Decimal(i) ==
    LET digit == <<"0", "1", "2", "3", "4", "5", "6", "7", "8", "9">>
    IN  IF i < 10 THEN digit[i + 1]
        ELSE digit[(i \div 10) + 1] \o digit[(i % 10) + 1]

\* hw_scan has been given a frame with at least one probe-count key
ProbeCountSent ==
    /\ scan.calls > 0
    /\ scan.meta # << >>
    /\ EntriesOf(scan.meta[1], {32, 64}) # << >>

C27_ProbeList ==
    ProbeCountSent =>
       /\ ~crashed
       /\ scan.devices # << >>
       /\ LET N == LastValue(scan.meta[1], {32, 64})
              l == scan.devices[1].probe_list
          IN  /\ Len(l) = N
              /\ \A k \in 1..Len(l) :
                    /\ l[k].index = k - 1
                    /\ l[k].name = Decimal(k - 1)

(***************************************************************************)
(* C28: the capture size hw_dev_acquisition_start programs is              *)
(* readcount = min(max_samples / num_channel_groups, limit_samples) / 4,   *)
(* not cut to 16 bits, and, with a trigger, delaycount =                   *)
(* readcount * (1 - capture_ratio / 100); both are at least 1, so that     *)
(* the fields readcount - 1 and delaycount - 1 sent in CAPTURE_SIZE do not *)
(* wrap, whatever limit_samples, capture_ratio and max_samples are         *)
(* (max_samples is 0 when the device sent no metadata).                    *)
(***************************************************************************)
ChannelGroups(d) == {g \in Groups : \E p \in d.probe_mask : p \div 8 = g}

C28_CaptureSize ==
    (Programmed /\ ChannelGroups(devc) # {}) =>
       LET n == Cardinality(ChannelGroups(devc))
           rc == Min(devc.max_samples \div n, devc.limit_samples) \div 4
           dc == IF devc.trigger_mask[0] # {}
                 THEN (rc * (100 - devc.capture_ratio)) \div 100
                 ELSE acq.prog.delaycount
       IN  /\ acq.prog.readcount = rc
           /\ acq.prog.delaycount = dc
           /\ rc >= 1
           /\ dc >= 1
           /\ acq.prog.size = <<rc - 1, dc - 1>>

(***************************************************************************)
(* C29: whatever config_set calls have been made, capture_ratio lies in    *)
(* 0..100; a config_set(capture-ratio, v) on an active device with v       *)
(* outside 0..100 returns SR_ERR and leaves capture_ratio = 0, and with v  *)
(* inside 0..100 it returns SR_OK and leaves capture_ratio = v.            *)
(***************************************************************************)
CaptureRatioSet ==
    /\ call.op = "config_set"
    /\ call.cap = "CAPTURE_RATIO"
    /\ sdi.status = "ACTIVE"

C29_CaptureRatio ==
    /\ devc.capture_ratio \in 0..100
    /\ CaptureRatioSet =>
          IF call.value \in 0..100
          THEN ret = SR_OK /\ devc.capture_ratio = call.value
          ELSE ret = SR_ERR /\ devc.capture_ratio = 0

\* a ratio of 101 has just been refused
C29_Witness ==
    /\ CaptureRatioSet
    /\ call.value = 101
    /\ ret = SR_ERR
    /\ devc.capture_ratio = 0

(***************************************************************************)
(* C30: for every frame sr_rs9lcd_packet_valid accepts, the power of ten   *)
(* by which the decoded value is multiplied is -9 iff IND2_NANO is set in  *)
(* indicator byte 2, -6 iff IND2_MICRO is set in indicator byte 2, -3 iff  *)
(* IND1_MILI, 3 iff IND1_KILO, 6 iff IND1_MEGA is set in indicator byte 1, *)
(* and 0 when none of them is set; the value is negated iff INFO_NEG is    *)
(* set.  An accepted frame has at most one of the five bits set.           *)
(***************************************************************************)
\* the power of ten the indicator bytes of frame p stand for
Multiplier(p) ==
    IF HasBit(p.indicatrix2, IND2.NANO) THEN 0 - 9
    ELSE IF HasBit(p.indicatrix2, IND2.MICRO) THEN 0 - 6
    ELSE IF HasBit(p.indicatrix1, IND1.MILI) THEN 0 - 3
    ELSE IF HasBit(p.indicatrix1, IND1.KILO) THEN 3
    ELSE IF HasBit(p.indicatrix1, IND1.MEGA) THEN 6
    ELSE 0

\* the power of ten the decimal points of the digits of p stand for
PointExp(p) == DigitLoop(p, 3, 0, Dec(0, 0), FALSE, 0).exp

C30_Multiplier ==
    (dmm.stage = "parsed" /\ ~dmm.out.floatval.nan) =>
       LET p == dmm.frame
           v == dmm.out.floatval
       IN  /\ v.exp - PointExp(p) = Multiplier(p)
           /\ v.mant < 0 => HasBit(p.info, INFO.NEG)
           /\ v.mant > 0 => ~HasBit(p.info, INFO.NEG)

(***************************************************************************)
(* C31: the bit of frame byte digit4 that signals MAX (0x08) is never      *)
(* taken for a decimal point: a parsed frame with the bit set has the      *)
(* numeric values of the same frame without the bit, and the results of    *)
(* the two differ in the MAX flag only.                                    *)
(***************************************************************************)
\* frame p without the MAX bit
WithoutMax(p) == [p EXCEPT !.digit4 = ClearBit(@, DIG4_MAX)]

\* two doubles are the same number
SameNumber(a, b) ==
    \/ a = b
    \/ ~a.nan /\ ~b.nan /\ a.mant = 0 /\ b.mant = 0

C31_MaxBit ==
    (/\ dmm.stage = "parsed"
     /\ HasBit(dmm.frame.digit4, DIG4_MAX)
     /\ ~dmm.out.floatval.nan
     /\ ~dmm.out.analog.data.nan) =>
       \E rawval0 \in Garbage, temp0 \in Garbage :
          LET plain == sr_rs9lcd_parse(WithoutMax(dmm.frame), AnalogNew,
                                       rawval0, temp0)
          IN  /\ SameNumber(plain.floatval, dmm.out.floatval)
              /\ SameNumber(plain.analog.data, dmm.out.analog.data)
              /\ plain.ret = dmm.out.ret
              /\ plain.analog.mq = dmm.out.analog.mq
              /\ plain.analog.unit = dmm.out.analog.unit
              /\ plain.analog.mqflags = dmm.out.analog.mqflags
                                           \ {SR_MQFLAG.MAX}
              /\ SR_MQFLAG.MAX \in dmm.out.analog.mqflags

(***************************************************************************)
(* C32: dslogic_fpga_firmware_upload sends the CONFIG vendor request       *)
(* before any bulk write; it returns SR_OK only if that request succeeded  *)
(* and every chunk the resource reader yielded was written, in order and   *)
(* completely; a failed CONFIG request, a read error, a bulk transfer      *)
(* error or a short transfer makes it return SR_ERR, and no chunk is       *)
(* written after the failure.                                              *)
(***************************************************************************)
\* the upload got as far as the CONFIG request
UploadBegun ==
    /\ dsl.stage = "uploaded"
    /\ dsl.open_ok
    /\ dsl.out.name # ""

\* the chunks up to and including the first whose transfer fails
Written ==
    LET bad == {i \in 1..Len(dsl.chunks) : dsl.xfer[i] # "ok"}
    IN  IF ~dsl.config_ok THEN {}
        ELSE {i \in 1..Len(dsl.chunks) : \A b \in bad : i <= b}

C32_FirmwareUpload ==
    UploadBegun =>
       LET usb == dsl.out.usb
           failed == \/ ~dsl.config_ok
                     \/ dsl.last < 0
                     \/ \E i \in 1..Len(dsl.chunks) : dsl.xfer[i] # "ok"
       IN  /\ usb[1].op = "control"
           /\ \A k \in 2..Len(usb) : usb[k].op = "bulk"
           /\ Len(usb) = 1 + Cardinality(Written)
           /\ \A k \in 2..Len(usb) :
                 /\ usb[k].chunk = k - 1
                 /\ usb[k].length = dsl.chunks[k - 1]
                 /\ dsl.out.ret = SR_OK
                       => usb[k].transferred = usb[k].length
           /\ dsl.out.ret = SR_OK => Len(usb) = 1 + Len(dsl.chunks)
           /\ dsl.out.ret = (IF failed THEN SR_ERR ELSE SR_OK)

\* two chunks, the first written short: SR_ERR, the second never written
C32_Witness ==
    /\ UploadBegun
    /\ dsl.config_ok
    /\ Len(dsl.chunks) = 2
    /\ dsl.xfer = <<"short", "ok">>
    /\ dsl.last = 0
    /\ dsl.out.ret = SR_ERR
    /\ Len(dsl.out.usb) = 2

(***************************************************************************)
(* C33: for every positive samplerate the transfer buffer size is a        *)
(* positive multiple of 512 and at least 10 ms worth of bytes, the bytes   *)
(* per ms being min(samplerate, 100 MHz) / 1000 * 2, and                   *)
(* dslogic_get_number_of_transfers returns a number in                     *)
(* 1..NUM_SIMUL_TRANSFERS and never divides by zero.                       *)
(***************************************************************************)
C33_Transfers ==
    (dsl.stage = "sized" /\ dsl.devc.cur_samplerate > 0) =>
       LET rate == dsl.devc.cur_samplerate
           per_ms == (Min(rate, SR_MHZ(100)) \div 1000) * 2
       IN  /\ ~crashed
           /\ dsl.size > 0
           /\ dsl.size % 512 = 0
           /\ dsl.size >= 10 * per_ms
           /\ dsl.n \in 1..NUM_SIMUL_TRANSFERS

(***************************************************************************)
(* C34: on an OLS device instance status = Active implies that the serial  *)
(* port is open, whatever dev_open, dev_close, config_set,                 *)
(* acquisition_start and acquisition_stop calls and acquisitions ended by  *)
(* the timeout have gone before; hence no config_set and no                *)
(* acquisition_start succeeds on an instance whose port is closed.         *)
(***************************************************************************)
C34_ActiveOpen ==
    ~crashed =>
       /\ sdi.status = "ACTIVE" => serial_fd = FD_OPEN
       /\ (call.op \in {"config_set", "acquisition_start"} /\ ret = SR_OK)
             => serial_fd = FD_OPEN

(***************************************************************************)
(* C35: every Logic packet receive_data sends at the timeout has a length  *)
(* that is not negative and refers to bytes that all lie in the filled     *)
(* part of the sample buffer, from (limit_samples - num_samples) * 4 up to *)
(* limit_samples * 4, whatever trigger_at, num_stages, capture_ratio and   *)
(* the number of samples received are.                                     *)
(***************************************************************************)
\* the timeout branch of receive_data has just run in a first acquisition
TimeoutSent ==
    /\ call.op = "receive_data"
    /\ call.cap = "TIMEOUT"
    /\ acq.starts = 1

C35_LogicRange ==
    TimeoutSent =>
       \A i \in 1..Len(feed) :
          feed[i].type = "LOGIC" =>
             /\ feed[i].length >= 0
             /\ feed[i].offset >= (devc.limit_samples - devc.num_samples) * 4
             /\ feed[i].offset + feed[i].length <= devc.limit_samples * 4

(***************************************************************************)
(* C36: receive_data writes a sample to the sample buffer or sends a Logic *)
(* packet from it only when the buffer is allocated for the acquisition    *)
(* at hand and not yet freed, and after every successful                   *)
(* acquisition_start the counters num_transfers, num_samples and num_bytes *)
(* are zero, so that a second acquisition on the instance stores and       *)
(* delivers its own samples.                                               *)
(***************************************************************************)
\* this step is a receive_data call that stores a sample, sends a Logic
\* packet or dies
BufferUsed ==
    /\ call'.op = "receive_data"
    /\ \/ devc'.num_samples # devc.num_samples
       \/ crashed'
       \/ \E i \in (Len(feed) + 1)..Len(feed') : feed'[i].type = "LOGIC"

\* this step is an acquisition_start call that succeeds
StartSucceeds ==
    /\ call'.op = "acquisition_start"
    /\ ret' = SR_OK
    /\ ~crashed'

C36_OwnBuffer ==
    [][ /\ BufferUsed =>
             \/ devc.num_transfers = 0 /\ devc'.raw_sample_buf.state = "alloc"
             \/ devc.raw_sample_buf.state = "alloc"
        /\ StartSucceeds =>
             /\ devc'.num_transfers = 0
             /\ devc'.num_samples = 0
             /\ devc'.num_bytes = 0 ]_vars

(***************************************************************************)
(* C37: hw_scan closes the serial port on every return path it takes       *)
(* after it has opened the port: a failing Reset write, no readable        *)
(* response, a short Id response, an Id response that does not match, and *)
(* a successful discovery.                                                 *)
(***************************************************************************)
\* hw_scan has returned after opening the port (it then wrote to it)
ScanOpenedPort ==
    /\ scan.calls > 0
    /\ scan.wire # << >>
    /\ ~crashed

C37_ScanCloses == ScanOpenedPort => scan.fd = FD_CLOSED

(***************************************************************************)
(* C38: every frame sr_rs9lcd_packet_valid accepts has a mode that         *)
(* sr_rs9lcd_parse maps to a measured quantity and a unit: after the       *)
(* parse of an accepted frame (mode 0..25) mq and unit are set.            *)
(***************************************************************************)
C38_ModeMapped ==
    dmm.stage = "parsed" =>
       /\ dmm.frame.mode \in 0..25
       /\ dmm.out.analog.mq # AnalogNew.mq
       /\ dmm.out.analog.unit # AnalogNew.unit

(***************************************************************************)
(* C39: when hw_dev_acquisition_start returns an error (device not active, *)
(* trigger configuration rejected, a serial write failed or an allocation  *)
(* failed), no I/O source is left registered for the device and the call   *)
(* has sent no datafeed packet.                                            *)
(***************************************************************************)
\* the start call at hand returned an error
StartFailed ==
    /\ call.op = "acquisition_start"
    /\ ret # SR_OK
    /\ ~crashed

C39_FailedStartClean ==
    StartFailed =>
       /\ source = << >>
       /\ feed = << >>

(***************************************************************************)
(* C40: hw_dev_acquisition_start on an active device with no enabled probe *)
(* (probe_mask = 0, no channel group) never divides by zero when it sizes  *)
(* the capture: as the count of channel groups is 0, the call returns an   *)
(* error before it comes to the division.                                  *)
(***************************************************************************)
\* the start call at hand was made on an active device without probes
StartNoProbes ==
    /\ call.op = "acquisition_start"
    /\ sdi.status = "ACTIVE"
    /\ sdi.probes.enabled = {}

C40_NoZeroDivisor ==
    StartNoProbes =>
       /\ ~crashed
       /\ ret # SR_OK
       /\ acq.prog = NoProgram

=============================================================================
